---- MODULE Spec2Model ----
(***************************************************************************)
(* openapi-to-mcp: the tool handlers registered by MCPServerGenerator and  *)
(* the request marshaling and execution of HttpClient.                     *)
(*                                                                         *)
(* JavaScript strings are sequences of one-character strings, so that      *)
(* startsWith, split, trim, encodeURIComponent, JSON.parse and             *)
(* JSON.stringify are computed character by character.  JavaScript values  *)
(* are records tagged by their type in field t.                            *)
(***************************************************************************)
EXTENDS Integers, Sequences, FiniteSets, TLC

(* ------------------------------ values -------------------------------- *)

Str(s) == [t |-> "str", v |-> s]
Num(n) == [t |-> "num", v |-> n]
Bool(b) == [t |-> "bool", v |-> b]
Null == [t |-> "null"]
Arr(s) == [t |-> "arr", v |-> s]
\* an object: its own keys in insertion order, and the key -> value map
Obj(keys, f) == [t |-> "obj", keys |-> keys, v |-> f]

\* the empty record {} (a function with empty domain)
EmptyMap == [k \in {} |-> Null]

\* U+D800, a lone surrogate: one UTF-16 code unit that is no character
Surrogate == "U+D800"

\* JavaScript truthiness of a defined value (`x && ...`, `x || ''`)
Truthy(x) ==
  CASE x.t = "null" -> FALSE
    [] x.t = "bool" -> x.v
    [] x.t = "num" -> x.v # 0
    [] x.t = "str" -> x.v # <<>>
    [] OTHER -> TRUE

RECURSIVE Concat(_)
\* the concatenation of a sequence of strings
Concat(ss) == IF ss = <<>> THEN <<>> ELSE Head(ss) \o Concat(Tail(ss))

RECURSIVE Join(_, _)
\* Array.prototype.join
Join(ss, sep) ==
  IF ss = <<>> THEN <<>>
  ELSE IF Len(ss) = 1 THEN ss[1]
  ELSE ss[1] \o sep \o Join(Tail(ss), sep)

DigitChar(d) == <<"0", "1", "2", "3", "4", "5", "6", "7", "8", "9">>[d + 1]

RECURSIVE Digits(_)
\* the decimal digits of a natural number (Number.prototype.toString)
Digits(n) == IF n < 10 THEN <<DigitChar(n)>> ELSE Digits(n \div 10) \o <<DigitChar(n % 10)>>

RECURSIVE StringOf(_)
\* String(x), the coercion encodeURIComponent and template literals apply
StringOf(x) ==
  CASE x.t = "str" -> x.v
    [] x.t = "num" -> Digits(x.v)
    [] x.t = "bool" -> IF x.v THEN <<"t", "r", "u", "e">> ELSE <<"f", "a", "l", "s", "e">>
    [] x.t = "null" -> <<"n", "u", "l", "l">>
    [] x.t = "arr" ->
         Join([i \in 1..Len(x.v) |->
                 IF x.v[i].t = "null" THEN <<>> ELSE StringOf(x.v[i])], <<",">>)
    [] OTHER -> <<"[", "o", "b", "j", "e", "c", "t", " ", "O", "b", "j", "e", "c", "t", "]">>

StartsWith(s, p) == Len(s) >= Len(p) /\ SubSeq(s, 1, Len(p)) = p
EndsWith(s, p) == Len(s) >= Len(p) /\ SubSeq(s, Len(s) - Len(p) + 1, Len(s)) = p
\* s has p as a substring (String.prototype.includes)
Includes(s, p) == \E i \in 1..(Len(s) - Len(p) + 1) : SubSeq(s, i, i + Len(p) - 1) = p

(* --------------------------- JSON.stringify --------------------------- *)

\* one character inside a JSON string literal
JsonEscape(c) ==
  CASE c = "\"" -> <<"\\", "\"">>
    [] c = "\\" -> <<"\\", "\\">>
    [] c = "\n" -> <<"\\", "n">>
    [] c = Surrogate -> <<"\\", "u", "d", "8", "0", "0">>
    [] OTHER -> <<c>>

Quote(s) == <<"\"">> \o Concat([i \in 1..Len(s) |-> JsonEscape(s[i])]) \o <<"\"">>

RECURSIVE Pad(_)
\* n spaces
Pad(n) == IF n = 0 THEN <<>> ELSE <<" ">> \o Pad(n - 1)

RECURSIVE Stringify(_, _, _)
\* JSON.stringify(x, null, indent), at nesting depth level
Stringify(x, indent, level) ==
  LET open(b) == IF indent = 0 THEN <<b>> ELSE <<b, "\n">> \o Pad(indent * (level + 1))
      sep == IF indent = 0 THEN <<",">> ELSE <<",", "\n">> \o Pad(indent * (level + 1))
      close(b) == IF indent = 0 THEN <<b>> ELSE <<"\n">> \o Pad(indent * level) \o <<b>>
      colon == IF indent = 0 THEN <<":">> ELSE <<":", " ">>
  IN CASE x.t = "str" -> Quote(x.v)
       [] x.t = "num" -> Digits(x.v)
       [] x.t = "bool" -> StringOf(x)
       [] x.t = "null" -> <<"n", "u", "l", "l">>
       [] x.t = "arr" ->
            IF x.v = <<>> THEN <<"[", "]">>
            ELSE open("[")
                   \o Join([i \in 1..Len(x.v) |-> Stringify(x.v[i], indent, level + 1)], sep)
                   \o close("]")
       [] OTHER ->
            IF x.keys = <<>> THEN <<"{", "}">>
            ELSE open("{")
                   \o Join([i \in 1..Len(x.keys) |->
                              Quote(x.keys[i]) \o colon
                                \o Stringify(x.v[x.keys[i]], indent, level + 1)], sep)
                   \o close("}")

(* ----------------------------- JSON.parse ----------------------------- *)

JsonDigits == {"1", "2", "3", "4", "5", "6", "7", "8", "9"}
DigitValue(c) == CHOOSE d \in 1..9 : DigitChar(d) = c

RECURSIVE SkipWs(_, _)
\* the first position at or after i that holds no space and no line feed
SkipWs(s, i) == IF i <= Len(s) /\ s[i] \in {" ", "\n"} THEN SkipWs(s, i + 1) ELSE i

RECURSIVE ParseNumber(_, _, _)
\* the digits from position i on, accumulated onto acc
ParseNumber(s, i, acc) ==
  IF i <= Len(s) /\ s[i] \in JsonDigits
  THEN ParseNumber(s, i + 1, acc * 10 + DigitValue(s[i]))
  ELSE [ok |-> TRUE, val |-> Num(acc), next |-> i]

ParseFail == [ok |-> FALSE, val |-> Null, next |-> 0]

\* U+FEFF, the byte order mark some editors put before the text of a file
ByteOrderMark == "U+FEFF"

RECURSIVE ParseString(_, _, _)
\* the string literal whose next character is at i, its value so far in acc
ParseString(s, i, acc) ==
  IF i > Len(s) \/ s[i] = "\n" THEN ParseFail
  ELSE IF s[i] = "\"" THEN [ok |-> TRUE, val |-> Str(acc), next |-> i + 1]
  ELSE IF s[i] = "\\"
    THEN IF i + 1 <= Len(s) /\ s[i + 1] \in {"\"", "\\"}
         THEN ParseString(s, i + 2, Append(acc, s[i + 1]))
         ELSE IF i + 1 <= Len(s) /\ s[i + 1] = "n" THEN ParseString(s, i + 2, Append(acc, "\n"))
         ELSE ParseFail
  ELSE ParseString(s, i + 1, Append(acc, s[i]))

\* the literal at position i, if the text goes on with it
ParseLiteral(s, i, literal, val) ==
  IF SubSeq(s, i, i + Len(literal) - 1) = literal
  THEN [ok |-> TRUE, val |-> val, next |-> i + Len(literal)]
  ELSE ParseFail

RECURSIVE ParseValue(_, _)
RECURSIVE ParseElements(_, _, _)
RECURSIVE ParseMembers(_, _, _)

\* after the element e of an array: at position k a comma and the next
\* element, or the closing bracket
ElementsAfter(s, acc, e, k) ==
  IF ~e.ok \/ k > Len(s) THEN ParseFail
  ELSE IF s[k] = "," THEN ParseElements(s, k + 1, Append(acc, e.val))
  ELSE IF s[k] = "]" THEN [ok |-> TRUE, val |-> Arr(Append(acc, e.val)), next |-> k + 1]
  ELSE ParseFail

ElementThen(s, acc, e) == ElementsAfter(s, acc, e, IF e.ok THEN SkipWs(s, e.next) ELSE 0)

\* the elements of an array whose next element starts at i
ParseElements(s, i, acc) == ElementThen(s, acc, ParseValue(s, i))

\* the object with the member added: a later member of the same name
\* replaces the value of the earlier one
WithMember(acc, name, val) ==
  Obj(IF name \in DOMAIN acc.v THEN acc.keys ELSE Append(acc.keys, name),
      [m \in DOMAIN acc.v \cup {name} |-> IF m = name THEN val ELSE acc.v[m]])

\* after the value e of the member `name`: at position k a comma and the
\* next member, or the closing brace
MembersAfter(s, acc, name, e, k) ==
  IF ~e.ok \/ k > Len(s) THEN ParseFail
  ELSE IF s[k] = "," THEN ParseMembers(s, k + 1, WithMember(acc, name, e.val))
  ELSE IF s[k] = "}" THEN [ok |-> TRUE, val |-> WithMember(acc, name, e.val), next |-> k + 1]
  ELSE ParseFail

MemberThen(s, acc, name, e) ==
  MembersAfter(s, acc, name, e, IF e.ok THEN SkipWs(s, e.next) ELSE 0)

\* after the name of a member: a colon at position c, then the value
MemberValue(s, acc, name, c) ==
  IF ~name.ok \/ c > Len(s) THEN ParseFail
  ELSE IF s[c] # ":" THEN ParseFail
  ELSE MemberThen(s, acc, name.val.v, ParseValue(s, c + 1))

MemberNamed(s, acc, name) ==
  MemberValue(s, acc, name, IF name.ok THEN SkipWs(s, name.next) ELSE 0)

\* the name of a member: a string literal at position j
ParseName(s, j) ==
  IF j > Len(s) THEN ParseFail
  ELSE IF s[j] = "\"" THEN ParseString(s, j + 1, <<>>)
  ELSE ParseFail

\* the members of an object whose next member starts at i
ParseMembers(s, i, acc) == MemberNamed(s, acc, ParseName(s, SkipWs(s, i)))

\* the array opened at position j, with k the next position that is no
\* white space
ParseArray(s, j, k) ==
  IF k > Len(s) THEN ParseFail
  ELSE IF s[k] = "]" THEN [ok |-> TRUE, val |-> Arr(<<>>), next |-> k + 1]
  ELSE ParseElements(s, j + 1, <<>>)

\* the object opened at position j, likewise
ParseObject(s, j, k) ==
  IF k > Len(s) THEN ParseFail
  ELSE IF s[k] = "}" THEN [ok |-> TRUE, val |-> Obj(<<>>, EmptyMap), next |-> k + 1]
  ELSE ParseMembers(s, j + 1, Obj(<<>>, EmptyMap))

\* the JSON value at position j, which holds no white space
ParseValueAt(s, j) ==
  IF j > Len(s) THEN ParseFail
  ELSE IF s[j] \in JsonDigits THEN ParseNumber(s, j, 0)
  ELSE IF s[j] = "\"" THEN ParseString(s, j + 1, <<>>)
  ELSE IF s[j] = "n" THEN ParseLiteral(s, j, <<"n", "u", "l", "l">>, Null)
  ELSE IF s[j] = "t" THEN ParseLiteral(s, j, <<"t", "r", "u", "e">>, Bool(TRUE))
  ELSE IF s[j] = "f" THEN ParseLiteral(s, j, <<"f", "a", "l", "s", "e">>, Bool(FALSE))
  ELSE IF s[j] = "[" THEN ParseArray(s, j, SkipWs(s, j + 1))
  ELSE IF s[j] = "{" THEN ParseObject(s, j, SkipWs(s, j + 1))
  ELSE ParseFail

\* a JSON value starting at position i (after white space): a number, a
\* string, a literal, an array or an object; every other character is a
\* syntax error.  Exact for texts whose numbers are written with the digits
\* 1-9 and whose strings escape only the quote, the backslash and the line
\* feed.
ParseValue(s, i) == ParseValueAt(s, SkipWs(s, i))

\* the value parsed, if nothing but white space follows it
WholeText(s, r) ==
  IF ~r.ok THEN [ok |-> FALSE, val |-> Null]
  ELSE IF SkipWs(s, r.next) > Len(s) THEN [ok |-> TRUE, val |-> r.val]
  ELSE [ok |-> FALSE, val |-> Null]

\* JSON.parse(s): ok and the value, or not ok (a SyntaxError is thrown)
JSONparse(s) == WholeText(s, ParseValue(s, 1))

(* ------------------------------ objects ------------------------------- *)

\* Object.keys(x): an object's own keys, an array's indices
Keys(x) ==
  IF x.t = "obj" THEN x.keys
  ELSE IF x.t = "arr" THEN [i \in 1..Len(x.v) |-> Digits(i - 1)]
  ELSE <<>>

\* x[k] !== undefined
Has(x, k) ==
  IF x.t = "obj" THEN k \in DOMAIN x.v
  ELSE IF x.t = "arr" THEN \E i \in 1..Len(x.v) : Digits(i - 1) = k
  ELSE FALSE

\* x[k], where Has(x, k)
Get(x, k) ==
  IF x.t = "obj" THEN x.v[k]
  ELSE x.v[CHOOSE i \in 1..Len(x.v) : Digits(i - 1) = k]

\* the object literal {}
EmptyObj == Obj(<<>>, EmptyMap)

\* obj[k] = val: a new key goes last, an existing key keeps its place
Put(obj, k, val) ==
  Obj(IF k \in DOMAIN obj.v THEN obj.keys ELSE Append(obj.keys, k),
      [j \in DOMAIN obj.v \cup {k} |-> IF j = k THEN val ELSE obj.v[j]])

(* ------------------------- encodeURIComponent ------------------------- *)

\* the characters of the model that encodeURIComponent escapes, with their
\* UTF-8 percent-encoding; letters, digits and - _ . ! ~ * ' ( ) are kept
PercentEncoded ==
  (" " :> <<"%", "2", "0">>) @@ ("/" :> <<"%", "2", "F">>) @@ ("{" :> <<"%", "7", "B">>)
    @@ ("}" :> <<"%", "7", "D">>) @@ ("[" :> <<"%", "5", "B">>) @@ ("]" :> <<"%", "5", "D">>)
    @@ ("," :> <<"%", "2", "C">>) @@ (":" :> <<"%", "3", "A">>) @@ ("\"" :> <<"%", "2", "2">>)

\* encodeURIComponent(s): the encoded text, or not ok (URIError: a lone
\* surrogate has no UTF-8 encoding)
encodeURIComponent(s) ==
  IF \E i \in 1..Len(s) : s[i] = Surrogate
  THEN [ok |-> FALSE, val |-> <<>>]
  ELSE [ok |-> TRUE,
        val |-> Concat([i \in 1..Len(s) |->
                  IF s[i] \in DOMAIN PercentEncoded THEN PercentEncoded[s[i]] ELSE <<s[i]>>])]

(* ----------------------------- HttpClient ----------------------------- *)

ContentType == <<"C", "o", "n", "t", "e", "n", "t", "-", "T", "y", "p", "e">>
ApplicationJson == <<"a", "p", "p", "l", "i", "c", "a", "t", "i", "o", "n", "/", "j", "s", "o", "n">>
MultipartFormData == <<"m", "u", "l", "t", "i", "p", "a", "r", "t", "/", "f", "o", "r", "m", "-", "d", "a", "t", "a">>
Authorization == <<"A", "u", "t", "h", "o", "r", "i", "z", "a", "t", "i", "o", "n">>
BodyKey == <<"b", "o", "d", "y">>

\* the index of the first "}" of s, or 0
FirstClose(s) ==
  IF \E i \in 1..Len(s) : s[i] = "}"
  THEN CHOOSE i \in 1..Len(s) : s[i] = "}" /\ \A j \in 1..(i - 1) : s[j] # "}"
  ELSE 0

\* the replacement the callback of replacePathParams returns for one token
PathParamValue(params, paramName) ==
  encodeURIComponent(IF Has(params, paramName) /\ Truthy(Get(params, paramName))
                     THEN StringOf(Get(params, paramName))
                     ELSE <<>>)

RECURSIVE replacePathParams(_, _)
\* path.replace(/{([^}]+)}/g, ...): ok and the url, or not ok when
\* encodeURIComponent throws
replacePathParams(path, params) ==
  IF path = <<>> THEN [ok |-> TRUE, val |-> <<>>]
  ELSE LET close == FirstClose(Tail(path))
       IN IF Head(path) = "{" /\ close >= 2
          THEN LET paramName == SubSeq(path, 2, close)
                   value == PathParamValue(params, paramName)
                   rest == replacePathParams(SubSeq(path, close + 2, Len(path)), params)
               IN [ok |-> value.ok /\ rest.ok, val |-> value.val \o rest.val]
          ELSE LET rest == replacePathParams(Tail(path), params)
               IN [ok |-> rest.ok, val |-> <<Head(path)>> \o rest.val]

\* String.prototype.trim (the model's white space is the space)
RECURSIVE trim(_)
trim(s) ==
  IF s # <<>> /\ Head(s) = " " THEN trim(Tail(s))
  ELSE IF s # <<>> /\ s[Len(s)] = " " THEN trim(SubSeq(s, 1, Len(s) - 1))
  ELSE s

RECURSIVE split(_, _)
\* String.prototype.split on a one-character separator
split(s, sep) ==
  IF \E i \in 1..Len(s) : s[i] = sep
  THEN LET i == CHOOSE i \in 1..Len(s) : s[i] = sep /\ \A j \in 1..(i - 1) : s[j] # sep
       IN <<SubSeq(s, 1, i - 1)>> \o split(SubSeq(s, i + 1, Len(s)), sep)
  ELSE <<s>>

\* value.startsWith('[') && value.endsWith(']')
LooksLikeJsonArray(s) == StartsWith(s, <<"[">>) /\ EndsWith(s, <<"]">>)

\* a recovery that falls back to the comma split when JSON.parse throws
ArrayFromString_splitOnError(s) ==
  IF LooksLikeJsonArray(s) /\ JSONparse(s).ok THEN JSONparse(s).val
  ELSE LET pieces == split(s, ",")
       IN Arr([i \in 1..Len(pieces) |-> Str(trim(pieces[i]))])

\* what extractRequestBody stores for an array-typed property that arrived
\* as the string s (the try/catch of the property loop)
ArrayFromString(s) ==
  IF LooksLikeJsonArray(s)
  THEN IF JSONparse(s).ok THEN JSONparse(s).val ELSE Arr(<<Str(s)>>)
  ELSE LET pieces == split(s, ",")
       IN Arr([i \in 1..Len(pieces) |-> Str(trim(pieces[i]))])

\* the value stored for one entry when all params are passed (a $ref or
\* property-less object schema): a string that looks like an array is parsed
PassedValue(value) ==
  IF value.t = "str" /\ LooksLikeJsonArray(value.v) /\ JSONparse(value.v).ok
  THEN JSONparse(value.v).val
  ELSE value

RECURSIVE PassAllParams(_, _, _)
\* Object.entries(params).forEach over the keys still to visit
PassAllParams(params, keys, body) ==
  IF keys = <<>> THEN body
  ELSE LET value == Get(params, Head(keys))
       IN PassAllParams(params, Tail(keys),
            IF value = Str(<<>>) THEN body ELSE Put(body, Head(keys), PassedValue(value)))

\* the value stored for declared property propName
PropertyValue(params, propName, schemaObj) ==
  IF "type" \in DOMAIN schemaObj /\ schemaObj.type = "array" /\ Get(params, propName).t = "str"
  THEN ArrayFromString(Get(params, propName).v)
  ELSE Get(params, propName)

RECURSIVE ByProperties_nullMissing(_, _, _, _)
\* a property loop that writes null for a declared property not supplied
ByProperties_nullMissing(params, properties, keys, body) ==
  IF keys = <<>> THEN body
  ELSE ByProperties_nullMissing(params, properties, Tail(keys),
         Put(body, Head(keys),
             IF Has(params, Head(keys))
             THEN PropertyValue(params, Head(keys), Get(properties, Head(keys)))
             ELSE Null))

RECURSIVE ByProperties(_, _, _, _)
\* Object.entries(schema.properties).forEach over the properties still to visit
ByProperties(params, properties, keys, body) ==
  IF keys = <<>> THEN body
  ELSE ByProperties(params, properties, Tail(keys),
         IF Has(params, Head(keys))
         THEN Put(body, Head(keys), PropertyValue(params, Head(keys), Get(properties, Head(keys))))
         ELSE body)

\* '$ref' in schema && schema.$ref
HasRef(schema) == "$ref" \in DOMAIN schema /\ schema["$ref"] # <<>>
SchemaTypeIs(schema, type) == "type" \in DOMAIN schema /\ schema.type = type

\* operation.requestBody.content['application/json'].schema is there
HasJsonSchema(operation) ==
  /\ "requestBody" \in DOMAIN operation
  /\ "content" \in DOMAIN operation.requestBody
  /\ ApplicationJson \in DOMAIN operation.requestBody.content
  /\ "schema" \in DOMAIN operation.requestBody.content[ApplicationJson]

\* params.body && Array.isArray(params.body)
HasBodyArray(params) == Has(params, BodyKey) /\ Get(params, BodyKey).t = "arr"

\* HttpClient.extractRequestBody: null, an array or an object
extractRequestBody(params, operation) ==
  IF ~HasJsonSchema(operation) THEN Null
  ELSE LET schema == operation.requestBody.content[ApplicationJson].schema
       IN IF SchemaTypeIs(schema, "array")
          THEN IF HasBodyArray(params) THEN Get(params, BodyKey) ELSE Arr(<<>>)
          ELSE IF SchemaTypeIs(schema, "object") \/ HasRef(schema)
          THEN IF HasRef(schema) \/ "properties" \notin DOMAIN schema
               THEN PassAllParams(params, Keys(params), EmptyObj)
               ELSE ByProperties(params, schema.properties, Keys(schema.properties), EmptyObj)
          ELSE Null

\* this.apiKey && this.apiKeyParamName && this.apiKeyLocation === location
PlacesApiKey(client, location) ==
  /\ "apiKey" \in DOMAIN client /\ client.apiKey # <<>>
  /\ "apiKeyParamName" \in DOMAIN client /\ client.apiKeyParamName # <<>>
  /\ "apiKeyLocation" \in DOMAIN client /\ client.apiKeyLocation = location

RECURSIVE QueryFromParameters(_, _, _)
\* queryParameters.forEach over the declared parameters still to visit
QueryFromParameters(params, parameters, queryParams) ==
  IF parameters = <<>> THEN queryParams
  ELSE LET param == Head(parameters)
       IN QueryFromParameters(params, Tail(parameters),
            IF param.in = "query" /\ Has(params, param.name)
            THEN Put(queryParams, param.name, Get(params, param.name))
            ELSE queryParams)

\* extractQueryParams with the API key written before the declared
\* parameters, so that a same-named argument overwrites it
extractQueryParams_keyFirst(client, params, operation) ==
  IF "parameters" \notin DOMAIN operation THEN EmptyObj
  ELSE QueryFromParameters(params, operation.parameters,
         IF PlacesApiKey(client, "query")
         THEN Put(EmptyObj, client.apiKeyParamName, Str(client.apiKey))
         ELSE EmptyObj)

\* HttpClient.extractQueryParams
extractQueryParams(client, params, operation) ==
  IF "parameters" \notin DOMAIN operation THEN EmptyObj
  ELSE LET queryParams == QueryFromParameters(params, operation.parameters, EmptyObj)
       IN IF PlacesApiKey(client, "query")
          THEN Put(queryParams, client.apiKeyParamName, Str(client.apiKey))
          ELSE queryParams

\* the multipart body built field by field from requestBody
FormData(requestBody) ==
  [t |-> "form",
   parts |-> IF requestBody.t = "null" THEN <<>>
             ELSE [i \in 1..Len(Keys(requestBody)) |->
                     [key |-> Keys(requestBody)[i], value |-> Get(requestBody, Keys(requestBody)[i])]]]

\* the operation's request body declares multipart/form-data
DeclaresMultipart(operation) ==
  /\ "requestBody" \in DOMAIN operation
  /\ "content" \in DOMAIN operation.requestBody
  /\ MultipartFormData \in DOMAIN operation.requestBody.content

\* no unwrapping of a nested body: the flat arguments are the field source
ActualParams_flat(params) == params

\* params.body && typeof params.body === 'object' ? params.body : params
ActualParams(params) ==
  IF Has(params, BodyKey) /\ Truthy(Get(params, BodyKey)) /\ Get(params, BodyKey).t \in {"obj", "arr"}
  THEN Get(params, BodyKey)
  ELSE params

URIError == [isError |-> TRUE, message |-> <<"U", "R", "I", " ", "m", "a", "l", "f", "o", "r", "m", "e", "d">>]

\* executeOperation up to the request: the AxiosRequestConfig handed to
\* client.request, or the exception thrown before any request is made
RequestConfig(client, operation, params) ==
  LET url == replacePathParams(operation.path, params)
      op == operation.operation
      queryParams == extractQueryParams(client, params, op)
      actualParams == ActualParams(params)
      requestBody == extractRequestBody(actualParams, op)
      contentType == IF DeclaresMultipart(op) THEN MultipartFormData ELSE ApplicationJson
      formOrBody == IF DeclaresMultipart(op) THEN FormData(requestBody) ELSE requestBody
      data == IF HasJsonSchema(op)
                 /\ SchemaTypeIs(op.requestBody.content[ApplicationJson].schema, "array")
                 /\ HasBodyArray(actualParams)
              THEN Get(actualParams, BodyKey)
              ELSE formOrBody
  IN IF ~url.ok THEN [thrown |-> TRUE, error |-> URIError]
     ELSE [thrown |-> FALSE,
           config |-> [method |-> operation.method, url |-> url.val, params |-> queryParams,
                       data |-> data,
                       headers |-> Obj(<<ContentType>>, (ContentType :> Str(contentType)))]]

\* axios resolves a response whose status validateStatus accepts (2xx)
IsSuccessStatus(status) == status >= 200 /\ status < 300

ApiError(message) == [isError |-> TRUE, message |-> message]

\* the catch block of the first draft of executeOperation: every AxiosError
\* becomes `API request failed: ${error.message}`, the response body is not
\* reported
executeOperation_draft(outcome) ==
  CASE outcome.kind = "response" ->
         IF IsSuccessStatus(outcome.status)
         THEN [ok |-> TRUE, value |-> outcome.data]
         ELSE [ok |-> FALSE,
               error |-> ApiError(<<"A", "P", "I", " ", "r", "e", "q", "u", "e", "s", "t", " ", "f", "a", "i", "l", "e", "d", ":", " ", "R", "e", "q", "u", "e", "s", "t", " ", "f", "a", "i", "l", "e", "d", " ", "w", "i", "t", "h", " ", "s", "t", "a", "t", "u", "s", " ", "c", "o", "d", "e", " ">>
                                    \o Digits(outcome.status))]
    [] outcome.kind = "noResponse" ->
         [ok |-> FALSE, error |-> ApiError(<<"A", "P", "I", " ", "r", "e", "q", "u", "e", "s", "t", " ", "f", "a", "i", "l", "e", "d", ":", " ", "N", "e", "t", "w", "o", "r", "k", " ", "E", "r", "r", "o", "r">>)]
    [] outcome.kind = "setup" ->
         [ok |-> FALSE, error |-> ApiError(<<"A", "P", "I", " ", "r", "e", "q", "u", "e", "s", "t", " ", "f", "a", "i", "l", "e", "d", ":", " ">> \o outcome.message)]
    [] OTHER -> [ok |-> FALSE, error |-> outcome.error]

\* executeOperation from the awaited request on: what the returned promise
\* settles to for an outcome of client.request(config)
executeOperation(outcome) ==
  CASE outcome.kind = "response" ->
         IF IsSuccessStatus(outcome.status)
         THEN [ok |-> TRUE, value |-> outcome.data]
         ELSE [ok |-> FALSE,
               error |-> ApiError(<<"A", "P", "I", " ", "r", "e", "q", "u", "e", "s", "t", " ", "f", "a", "i", "l", "e", "d", " ", "w", "i", "t", "h", " ", "s", "t", "a", "t", "u", "s", " ">>
                                    \o Digits(outcome.status) \o <<":", " ">>
                                    \o Stringify(outcome.data, 0, 0))]
    [] outcome.kind = "noResponse" ->
         [ok |-> FALSE,
          error |-> ApiError(<<"A", "P", "I", " ", "r", "e", "q", "u", "e", "s", "t", " ", "f", "a", "i", "l", "e", "d", ":", " ", "N", "o", " ", "r", "e", "s", "p", "o", "n", "s", "e", " ", "r", "e", "c", "e", "i", "v", "e", "d", " ", "f", "r", "o", "m", " ", "s", "e", "r", "v", "e", "r">>)]
    [] outcome.kind = "setup" ->
         [ok |-> FALSE, error |-> ApiError(<<"A", "P", "I", " ", "r", "e", "q", "u", "e", "s", "t", " ", "f", "a", "i", "l", "e", "d", ":", " ">> \o outcome.message)]
    [] OTHER -> [ok |-> FALSE, error |-> outcome.error]

\* what the promise of executeOperation settles to before any request: a
\* rejection with the exception thrown while marshaling
RejectedEarly(plan) == [ok |-> FALSE, error |-> plan.error]

\* error instanceof Error ? error.message : String(error)
ErrorText(error) == IF error.isError THEN error.message ELSE StringOf(error.value)

\* a handler without the catch block: a failure of executeOperation
\* rejects the handler's promise
toolHandler_uncaught(settled) ==
  IF settled.ok
  THEN [resolved |-> TRUE,
        content |-> <<[type |-> "text",
                       text |-> IF settled.value.t = "str" THEN settled.value.v
                                ELSE Stringify(settled.value, 2, 0)]>>]
  ELSE [resolved |-> FALSE, content |-> <<>>]

\* the tool handler registered by generateServer: the promise it returns for
\* a settled executeOperation
toolHandler(settled) ==
  IF settled.ok
  THEN [resolved |-> TRUE,
        content |-> <<[type |-> "text",
                       text |-> IF settled.value.t = "str" THEN settled.value.v
                                ELSE Stringify(settled.value, 2, 0)]>>]
  ELSE [resolved |-> TRUE,
        content |-> <<[type |-> "text", text |-> <<"E", "r", "r", "o", "r", ":", " ">> \o ErrorText(settled.error)]>>]

\* HttpClient.getBaseUrlFromSpec
getBaseUrlFromSpec(openApiSpec) ==
  IF "servers" \in DOMAIN openApiSpec /\ Len(openApiSpec.servers) > 0
  THEN openApiSpec.servers[1].url
  ELSE <<>>

RECURSIVE ApiKeyInfoFrom(_, _)
\* the loop of extractApiKeyInfo over the schemes still to visit: the first
\* apiKey scheme ends it, a bearer scheme is noted and the loop goes on
ApiKeyInfoFrom(schemes, info) ==
  IF schemes = <<>> THEN info
  ELSE LET securityScheme == Head(schemes)
       IN IF securityScheme.type = "apiKey"
          THEN [apiKeyParamName |-> securityScheme.name, apiKeyLocation |-> securityScheme.in]
          ELSE IF securityScheme.type = "http" /\ securityScheme.scheme = "bearer"
          THEN ApiKeyInfoFrom(Tail(schemes),
                              [apiKeyParamName |-> Authorization, apiKeyLocation |-> "header"])
          ELSE ApiKeyInfoFrom(Tail(schemes), info)

\* HttpClient.extractApiKeyInfo: the fields it sets (none, or both)
extractApiKeyInfo(openApiSpec) ==
  IF "components" \in DOMAIN openApiSpec /\ "securitySchemes" \in DOMAIN openApiSpec.components
  THEN ApiKeyInfoFrom(openApiSpec.components.securitySchemes, EmptyMap)
  ELSE EmptyMap

RECURSIVE Spread(_, _, _)
\* {...target, ...source} over the keys of source still to copy
Spread(target, source, keys) ==
  IF keys = <<>> THEN target
  ELSE Spread(Put(target, Head(keys), Get(source, Head(keys))), source, Tail(keys))

\* new HttpClient(options, openApiSpec): the fields of the client and the
\* default headers of its axios instance
HttpClient(options, openApiSpec) ==
  LET fields == (IF "apiKey" \in DOMAIN options THEN [apiKey |-> options.apiKey] ELSE EmptyMap)
                  @@ extractApiKeyInfo(openApiSpec)
      baseUrl == IF "baseUrl" \in DOMAIN options /\ options.baseUrl # <<>>
                 THEN options.baseUrl
                 ELSE getBaseUrlFromSpec(openApiSpec)
      given == IF "headers" \in DOMAIN options THEN options.headers ELSE EmptyObj
      headers == Spread(Obj(<<ContentType>>, (ContentType :> Str(ApplicationJson))),
                        given, Keys(given))
  IN fields @@
     [baseUrl |-> baseUrl,
      headers |-> IF PlacesApiKey(fields, "header")
                     /\ ~(Has(headers, fields.apiKeyParamName)
                          /\ Truthy(Get(headers, fields.apiKeyParamName)))
                  THEN Put(headers, fields.apiKeyParamName, Str(fields.apiKey))
                  ELSE headers]

DefaultServerName == <<"O", "p", "e", "n", "A", "P", "I", " ", "M", "C", "P", " ", "S", "e", "r", "v", "e", "r">>
DefaultServerVersion == <<"1", ".", "0", ".", "0">>

\* first truthy of a || b || c, for strings that may be absent
FirstGiven(record, field, fallback) ==
  IF field \in DOMAIN record /\ record[field] # <<>> THEN record[field] ELSE fallback

\* a generator that hands the apiKey of its options on to its client
MCPServerGenerator_withApiKey(openApiSpec, options) ==
  LET own == [name |-> FirstGiven(options, "name",
                         FirstGiven(openApiSpec.info, "title", DefaultServerName)),
              version |-> FirstGiven(options, "version",
                            FirstGiven(openApiSpec.info, "version", DefaultServerVersion)),
              headers |-> IF "headers" \in DOMAIN options THEN options.headers ELSE EmptyObj]
                @@ [k \in DOMAIN options \cap {"baseUrl", "apiKey"} |-> options[k]]
  IN [options |-> own,
      httpClient |-> HttpClient([k \in DOMAIN own \cap {"baseUrl", "apiKey", "headers"} |-> own[k]],
                                openApiSpec)]

\* new MCPServerGenerator(openApiSpec, options): its options and its client,
\* which is constructed from baseUrl and headers alone
MCPServerGenerator(openApiSpec, options) ==
  LET own == [name |-> FirstGiven(options, "name",
                         FirstGiven(openApiSpec.info, "title", DefaultServerName)),
              version |-> FirstGiven(options, "version",
                            FirstGiven(openApiSpec.info, "version", DefaultServerVersion)),
              headers |-> IF "headers" \in DOMAIN options THEN options.headers ELSE EmptyObj]
                @@ (IF "baseUrl" \in DOMAIN options THEN [baseUrl |-> options.baseUrl]
                    ELSE EmptyMap)
  IN [options |-> own,
      httpClient |-> HttpClient((IF "baseUrl" \in DOMAIN own THEN [baseUrl |-> own.baseUrl]
                                 ELSE EmptyMap) @@ [headers |-> own.headers],
                                openApiSpec)]

\* validateOpenAPISpec without the check of the path table
validateOpenAPISpec_lenient(spec) ==
  IF "openapi" \notin DOMAIN spec
  THEN [thrown |-> TRUE, message |-> "Missing \"openapi\" field in spec"]
  ELSE IF "info" \notin DOMAIN spec
  THEN [thrown |-> TRUE, message |-> "Missing \"info\" field in spec"]
  ELSE [thrown |-> FALSE]

\* validateOpenAPISpec: the error thrown for a description without openapi,
\* info or paths, in this order
validateOpenAPISpec(spec) ==
  IF "openapi" \notin DOMAIN spec
  THEN [thrown |-> TRUE, message |-> "Missing \"openapi\" field in spec"]
  ELSE IF "info" \notin DOMAIN spec
  THEN [thrown |-> TRUE, message |-> "Missing \"info\" field in spec"]
  ELSE IF "paths" \notin DOMAIN spec
  THEN [thrown |-> TRUE, message |-> "Missing \"paths\" field in spec"]
  ELSE [thrown |-> FALSE]

\* what new MCPServerGenerator(openApiSpec, options) throws, if anything:
\* the TypeError of reading info.title or info.version of a description
\* without info when the option is not given, else what the constructor of
\* the converter throws on validating the description
ConstructionError(openApiSpec, options) ==
  IF /\ "info" \notin DOMAIN openApiSpec
     /\ (FirstGiven(options, "name", <<>>) = <<>> \/ FirstGiven(options, "version", <<>>) = <<>>)
  THEN [thrown |-> TRUE, message |-> "Cannot read properties of undefined"]
  ELSE validateOpenAPISpec(openApiSpec)

(* ------------------------ OpenAPIToMCPConverter ----------------------- *)

LowerCase == <<"a", "b", "c", "d", "e", "f", "g", "h", "i", "j", "k", "l", "m", "n", "o", "p", "q", "r", "s", "t", "u", "v", "w", "x", "y", "z">>
UpperCase == <<"A", "B", "C", "D", "E", "F", "G", "H", "I", "J", "K", "L", "M", "N", "O", "P", "Q", "R", "S", "T", "U", "V", "W", "X", "Y", "Z">>
\* \w of a regular expression
WordChars == {LowerCase[i] : i \in 1..26} \cup {UpperCase[i] : i \in 1..26}
               \cup {DigitChar(d) : d \in 0..9} \cup {"_"}

\* \s of a regular expression
WhiteSpace == {" ", "\t"}

\* String.prototype.toUpperCase
toUpperCase(s) ==
  [i \in 1..Len(s) |->
     IF \E j \in 1..26 : LowerCase[j] = s[i]
     THEN UpperCase[CHOOSE j \in 1..26 : LowerCase[j] = s[i]]
     ELSE s[i]]

\* `${method.toUpperCase()}_${path.replace(/[^\w\s]/g, '_')}`
SynthesizedId(method, path) ==
  toUpperCase(method) \o <<"_">>
    \o [i \in 1..Len(path) |-> IF path[i] \in WordChars \cup WhiteSpace THEN path[i] ELSE "_"]

\* the verbs without head and options
HttpMethods_five == {<<"g", "e", "t">>, <<"p", "o", "s", "t">>, <<"p", "u", "t">>, <<"d", "e", "l", "e", "t", "e">>, <<"p", "a", "t", "c", "h">>}

HttpMethods == {<<"g", "e", "t">>, <<"p", "o", "s", "t">>, <<"p", "u", "t">>, <<"d", "e", "l", "e", "t", "e">>, <<"p", "a", "t", "c", "h">>, <<"o", "p", "t", "i", "o", "n", "s">>, <<"h", "e", "a", "d">>}

RECURSIVE ItemOperations(_, _)
\* Object.entries(pathItem).forEach over the entries still to visit
ItemOperations(path, entries) ==
  IF entries = <<>> THEN <<>>
  ELSE LET method == Head(entries).key
           operationObj == Head(entries).value
       IN (IF method \in HttpMethods
           THEN <<[path |-> path, method |-> method, operation |-> operationObj,
                   operationId |-> IF "operationId" \in DOMAIN operationObj
                                      /\ operationObj.operationId # <<>>
                                   THEN operationObj.operationId
                                   ELSE SynthesizedId(method, path)]>>
           ELSE <<>>)
          \o ItemOperations(path, Tail(entries))

RECURSIVE PathOperations(_)
\* Object.entries(paths).forEach over the paths still to visit
PathOperations(paths) ==
  IF paths = <<>> THEN <<>>
  ELSE ItemOperations(Head(paths).path, Head(paths).item) \o PathOperations(Tail(paths))

\* operations that also declare the query parameter of a declared apiKey scheme
parseOperations_secured(spec) ==
  IF "paths" \notin DOMAIN spec THEN <<>>
  ELSE LET operations == PathOperations(spec.paths)
           keyed == "components" \in DOMAIN spec
                      /\ \E i \in DOMAIN spec.components.securitySchemes :
                           spec.components.securitySchemes[i].type = "apiKey"
           keyParameter == [name |-> <<"a", "p", "i", "_", "k", "e", "y">>, in |-> "query", schema |-> [type |-> "string"]]
       IN [i \in DOMAIN operations |->
             IF keyed
             THEN [operations[i] EXCEPT !.operation =
                     [parameters |-> (IF "parameters" \in DOMAIN @ THEN @.parameters ELSE <<>>)
                                       \o <<keyParameter>>] @@ @]
             ELSE operations[i]]

\* OpenAPIToMCPConverter.parseOperations: this.operations
parseOperations(spec) ==
  IF "paths" \notin DOMAIN spec THEN <<>> ELSE PathOperations(spec.paths)

\* the value of an argument that was not supplied
Undefined == [t |-> "undefined"]

\* zod rules: z.string(), z.enum(values), z.string().datetime(), z.number(),
\* z.number().int(), z.boolean(), z.array(items), z.object({}),
\* z.object({}).passthrough(), z.any()
ZString == [kind |-> "string"]
ZEnum(values) == [kind |-> "enum", values |-> values]
ZDateTime == [kind |-> "datetime"]
ZNumber == [kind |-> "number"]
ZInt == [kind |-> "int"]
ZBoolean == [kind |-> "boolean"]
ZArray(items) == [kind |-> "array", items |-> items]
ZObject == [kind |-> "object"]
ZPassthrough == [kind |-> "passthrough"]
ZAny == [kind |-> "any"]
\* zodSchema.optional()
optional(zodSchema) == [optional |-> TRUE] @@ zodSchema

IsDigit(c) == \E d \in 0..9 : DigitChar(d) = c

\* the pattern of z.string().datetime(): an ISO 8601 instant in UTC, with
\* optional fractional seconds
IsDateTime(s) ==
  /\ Len(s) >= 20
  /\ \A i \in {1, 2, 3, 4, 6, 7, 9, 10, 12, 13, 15, 16, 18, 19} : IsDigit(s[i])
  /\ s[5] = "-" /\ s[8] = "-" /\ s[11] = "T" /\ s[14] = ":" /\ s[17] = ":"
  /\ s[Len(s)] = "Z"
  /\ Len(s) > 20 => /\ s[20] = "." /\ Len(s) >= 22
                    /\ \A i \in 21..(Len(s) - 1) : IsDigit(s[i])

\* a rule without items accepts the value x
AcceptsItem(zodSchema, x) ==
  CASE zodSchema.kind = "any" -> TRUE
    [] zodSchema.kind = "string" -> x.t = "str"
    [] zodSchema.kind = "enum" ->
         x.t = "str" /\ \E i \in DOMAIN zodSchema.values : zodSchema.values[i] = x.v
    [] zodSchema.kind = "datetime" -> x.t = "str" /\ IsDateTime(x.v)
    [] zodSchema.kind \in {"number", "int"} -> x.t = "num"
    [] zodSchema.kind = "boolean" -> x.t = "bool"
    [] zodSchema.kind \in {"object", "passthrough"} -> x.t = "obj"
    [] OTHER -> FALSE

\* zodSchema.safeParse(x).success
Accepts(zodSchema, x) ==
  \/ "optional" \in DOMAIN zodSchema /\ x = Undefined
  \/ IF zodSchema.kind = "array"
     THEN x.t = "arr" /\ \A i \in DOMAIN x.v : AcceptsItem(zodSchema.items, x.v[i])
     ELSE AcceptsItem(zodSchema, x)

\* schema.type, the empty string when the schema has none
TypeOf(schema) == IF "type" \in DOMAIN schema THEN schema.type ELSE ""

\* the rule of an array by the type of its items
ArrayOf(itemSchema) ==
  CASE TypeOf(itemSchema) = "string" -> ZArray(ZString)
    [] TypeOf(itemSchema) = "number" -> ZArray(ZNumber)
    [] TypeOf(itemSchema) = "integer" -> ZArray(ZInt)
    [] TypeOf(itemSchema) = "boolean" -> ZArray(ZBoolean)
    [] OTHER -> ZArray(ZAny)

\* OpenAPIToMCPConverter.convertParameterToZodSchema
convertParameterToZodSchema(param) ==
  LET schema == param.schema
      zodSchema ==
        CASE TypeOf(schema) = "string" ->
               IF "format" \in DOMAIN schema /\ schema.format = "date-time" THEN ZDateTime
               ELSE IF "enum" \in DOMAIN schema THEN ZEnum(schema.enum)
               ELSE ZString
          [] TypeOf(schema) = "number" -> ZNumber
          [] TypeOf(schema) = "integer" -> ZInt
          [] TypeOf(schema) = "boolean" -> ZBoolean
          [] TypeOf(schema) = "array" -> ArrayOf(schema.items)
          [] TypeOf(schema) = "object" -> ZObject
          [] OTHER -> ZAny
  IN [name |-> param.name,
      schema |-> IF "required" \in DOMAIN param /\ param.required THEN zodSchema
                 ELSE optional(zodSchema)]

\* the rule of one property of an object body
BodyPropertyRule(propSchema, isRequired) ==
  LET zodSchema ==
        CASE TypeOf(propSchema) = "string" -> ZString
          [] TypeOf(propSchema) = "number" -> ZNumber
          [] TypeOf(propSchema) = "integer" -> ZInt
          [] TypeOf(propSchema) = "boolean" -> ZBoolean
          [] TypeOf(propSchema) = "array" -> ArrayOf(propSchema.items)
          [] TypeOf(propSchema) = "object" -> ZPassthrough
          [] OTHER -> ZAny
  IN IF isRequired THEN zodSchema ELSE optional(zodSchema)

\* record[field] is a non-empty string
Given(record, field) == field \in DOMAIN record /\ record[field] # <<>>

RECURSIVE ParameterSchemas(_, _)
\* parameters.forEach: paramSchemas and paramDescriptions after the
\* parameters still to visit, from those in acc
ParameterSchemas(parameters, acc) ==
  IF parameters = <<>> THEN acc
  ELSE LET param == Head(parameters)
           converted == convertParameterToZodSchema(param)
       IN ParameterSchemas(Tail(parameters),
            [paramSchemas |-> Put(acc.paramSchemas, converted.name, converted.schema),
             paramDescriptions |->
               IF Given(param, "description")
               THEN Put(acc.paramDescriptions, converted.name, param.description)
               ELSE acc.paramDescriptions])

RECURSIVE PropertySchemas(_, _, _)
\* Object.entries(bodySchema.properties).forEach over the names still to visit
PropertySchemas(bodySchema, propNames, acc) ==
  IF propNames = <<>> THEN acc
  ELSE LET propName == Head(propNames)
           propSchema == bodySchema.properties.v[propName]
           isRequired == /\ "required" \in DOMAIN bodySchema
                         /\ \E i \in DOMAIN bodySchema.required : bodySchema.required[i] = propName
       IN PropertySchemas(bodySchema, Tail(propNames),
            [paramSchemas |-> Put(acc.paramSchemas, propName,
                                  BodyPropertyRule(propSchema, isRequired)),
             paramDescriptions |->
               IF Given(propSchema, "description")
               THEN Put(acc.paramDescriptions, propName, propSchema.description)
               ELSE acc.paramDescriptions])

\* the entries the request body adds to paramSchemas and paramDescriptions
BodySchemas(op, acc) ==
  IF ~HasJsonSchema(op) THEN acc
  ELSE LET bodySchema == op.requestBody.content[ApplicationJson].schema
       IN IF TypeOf(bodySchema) = "object" /\ "properties" \in DOMAIN bodySchema
          THEN PropertySchemas(bodySchema, bodySchema.properties.keys, acc)
          ELSE IF HasRef(bodySchema)
          THEN [paramSchemas |-> Put(acc.paramSchemas, BodyKey, ZPassthrough),
                paramDescriptions |-> Put(acc.paramDescriptions, BodyKey, <<"R", "e", "q", "u", "e", "s", "t", " ", "b", "o", "d", "y">>)]
          ELSE IF TypeOf(bodySchema) = "array"
          THEN [paramSchemas |-> Put(acc.paramSchemas, BodyKey, ZArray(ZAny)),
                paramDescriptions |-> Put(acc.paramDescriptions, BodyKey, <<"A", "r", "r", "a", "y", " ", "o", "f", " ", "i", "t", "e", "m", "s">>)]
          ELSE acc

\* the description of a tool: summary, description, parameters, required fields
DetailedDescription(operation, paramDescriptions) ==
  LET op == operation.operation
      first == IF Given(op, "summary") THEN op.summary
               ELSE IF Given(op, "description") THEN op.description
               ELSE toUpperCase(operation.method) \o <<" ">> \o operation.path
      more == IF Given(op, "description") /\ Given(op, "summary")
                 /\ op.description # op.summary
              THEN <<"\n", "\n">> \o op.description ELSE <<>>
      names == paramDescriptions.keys
      params == IF names = <<>> THEN <<>>
                ELSE <<"\n", "\n">> \o <<"P", "a", "r", "a", "m", "e", "t", "e", "r", "s", ":">>
                       \o Concat([i \in 1..Len(names) |->
                                    <<"\n", "-", " ">> \o names[i] \o <<":", " ">>
                                      \o paramDescriptions.v[names[i]]])
      required == IF /\ "requestBody" \in DOMAIN op
                     /\ "required" \in DOMAIN op.requestBody /\ op.requestBody.required
                     /\ HasJsonSchema(op)
                     /\ "required" \in DOMAIN op.requestBody.content[ApplicationJson].schema
                     /\ op.requestBody.content[ApplicationJson].schema.required # <<>>
                  THEN <<"\n", "\n">> \o <<"R", "e", "q", "u", "i", "r", "e", "d", " ", "f", "i", "e", "l", "d", "s", ":", " ">>
                         \o Join(op.requestBody.content[ApplicationJson].schema.required,
                                 <<",", " ">>)
                  ELSE <<>>
  IN first \o more \o params \o required

\* `schema.type` and `itemSchema.type` are read without a guard: on a
\* parameter without schema (a reference, or one described by `content`) and
\* on an array without items, the read raises a TypeError
ParameterRaises(param) ==
  \/ "schema" \notin DOMAIN param
  \/ TypeOf(param.schema) = "array" /\ "items" \notin DOMAIN param.schema

\* the same read on an array property of an object body
PropertyRaises(propSchema) ==
  TypeOf(propSchema) = "array" /\ "items" \notin DOMAIN propSchema

\* convertOperationToMCPTool raises on the operation
OperationRaises(operation) ==
  LET op == operation.operation
  IN \/ /\ "parameters" \in DOMAIN op
        /\ \E i \in DOMAIN op.parameters : ParameterRaises(op.parameters[i])
     \/ /\ HasJsonSchema(op)
        /\ TypeOf(op.requestBody.content[ApplicationJson].schema) = "object"
        /\ "properties" \in DOMAIN op.requestBody.content[ApplicationJson].schema
        /\ \E i \in DOMAIN op.requestBody.content[ApplicationJson].schema.properties.keys :
             PropertyRaises(op.requestBody.content[ApplicationJson].schema.properties.v[
               op.requestBody.content[ApplicationJson].schema.properties.keys[i]])

\* convertToMCPTools maps every operation: it raises when one of them does
ConversionRaises(operations) == \E i \in DOMAIN operations : OperationRaises(operations[i])

\* OpenAPIToMCPConverter.convertOperationToMCPTool
convertOperationToMCPTool(operation) ==
  LET op == operation.operation
      declared == ParameterSchemas(IF "parameters" \in DOMAIN op THEN op.parameters ELSE <<>>,
                                   [paramSchemas |-> EmptyObj, paramDescriptions |-> EmptyObj])
      all == BodySchemas(op, declared)
  IN [name |-> operation.operationId,
      description |-> DetailedDescription(operation, all.paramDescriptions),
      parameters |-> all.paramSchemas,
      path |-> operation.path,
      method |-> operation.method]

RECURSIVE convertToMCPTools_firstWins(_)
\* a registry that keeps the first operation of a name
convertToMCPTools_firstWins(operations) ==
  IF operations = <<>> THEN [tools |-> EmptyMap, openApiLookup |-> EmptyMap]
  ELSE LET operation == operations[1]
           after == convertToMCPTools_firstWins(Tail(operations))
           tool == convertOperationToMCPTool(operation)
           name == tool.name
       IN [tools |-> [n \in DOMAIN after.tools \cup {name} |->
                        IF n = name
                        THEN [description |-> tool.description, parameters |-> tool.parameters,
                              path |-> tool.path, method |-> tool.method]
                        ELSE after.tools[n]],
           openApiLookup |-> [n \in DOMAIN after.openApiLookup \cup {name} |->
                                IF n = name THEN operation ELSE after.openApiLookup[n]]]

RECURSIVE convertToMCPTools(_)
\* OpenAPIToMCPConverter.convertToMCPTools over the operations still to
\* visit: a later operation of the same name replaces an earlier one
convertToMCPTools(operations) ==
  IF operations = <<>> THEN [tools |-> EmptyMap, openApiLookup |-> EmptyMap]
  ELSE LET operation == operations[Len(operations)]
           before == convertToMCPTools(SubSeq(operations, 1, Len(operations) - 1))
           tool == convertOperationToMCPTool(operation)
           name == tool.name
       IN [tools |-> [n \in DOMAIN before.tools \cup {name} |->
                        IF n = name
                        THEN [description |-> tool.description, parameters |-> tool.parameters,
                              path |-> tool.path, method |-> tool.method]
                        ELSE before.tools[n]],
           openApiLookup |-> [n \in DOMAIN before.openApiLookup \cup {name} |->
                                IF n = name THEN operation ELSE before.openApiLookup[n]]]

(* ---------------------------- command line ---------------------------- *)

\* String.prototype.toLowerCase
toLowerCase(s) ==
  [i \in 1..Len(s) |->
     IF \E j \in 1..26 : UpperCase[j] = s[i]
     THEN LowerCase[CHOOSE j \in 1..26 : UpperCase[j] = s[i]]
     ELSE s[i]]

\* record.security && record.security.length > 0
HasSecurity(record) == "security" \in DOMAIN record /\ Len(record.security) > 0

\* the verbs checkIfAuthRequired looks at in each path item
CheckedMethods == {<<"g", "e", "t">>, <<"p", "o", "s", "t">>, <<"p", "u", "t">>, <<"d", "e", "l", "e", "t", "e">>, <<"p", "a", "t", "c", "h">>}

\* checkIfAuthRequired
checkIfAuthRequired(spec) ==
  \/ HasSecurity(spec)
  \/ /\ "paths" \in DOMAIN spec
     /\ \E p \in DOMAIN spec.paths :
          \E k \in DOMAIN spec.paths[p].item :
            /\ spec.paths[p].item[k].key \in CheckedMethods
            /\ HasSecurity(spec.paths[p].item[k].value)

\* spec.components?.securitySchemes || {}
SchemesOf(spec) ==
  IF "components" \in DOMAIN spec /\ "securitySchemes" \in DOMAIN spec.components
  THEN spec.components.securitySchemes ELSE <<>>

RECURSIVE AuthTypeFrom(_)
\* the loop of getAuthType over the schemes still to visit
AuthTypeFrom(schemes) ==
  IF schemes = <<>> THEN "unknown"
  ELSE LET securityScheme == Head(schemes)
       IN IF securityScheme.type = "http" /\ securityScheme.scheme = "bearer" THEN "bearer"
          ELSE IF securityScheme.type = "apiKey" THEN "apiKey"
          ELSE IF securityScheme.type = "oauth2" THEN "oauth2"
          ELSE AuthTypeFrom(Tail(schemes))

\* getAuthType
getAuthType(spec) == AuthTypeFrom(SchemesOf(spec))

RECURSIVE ApiKeyDetailsFrom(_)
\* the loop of getApiKeyDetails over the schemes still to visit
ApiKeyDetailsFrom(schemes) ==
  IF schemes = <<>> THEN [name |-> Authorization, in |-> "header"]
  ELSE LET securityScheme == Head(schemes)
       IN IF securityScheme.type = "apiKey"
          THEN [name |-> FirstGiven(securityScheme, "name", <<"a", "p", "i", "_", "k", "e", "y">>),
                in |-> IF "in" \in DOMAIN securityScheme /\ securityScheme.in # ""
                       THEN securityScheme.in ELSE "header"]
          ELSE ApiKeyDetailsFrom(Tail(schemes))

\* getApiKeyDetails
getApiKeyDetails(spec) == ApiKeyDetailsFrom(SchemesOf(spec))

\* the header names hasAuthHeader recognizes
AuthHeaders == {<<"a", "u", "t", "h", "o", "r", "i", "z", "a", "t", "i", "o", "n">>, <<"x", "-", "a", "p", "i", "-", "k", "e", "y">>, <<"a", "p", "i", "-", "k", "e", "y">>}

\* hasAuthHeader
hasAuthHeader(headers) ==
  \E i \in DOMAIN headers.keys : toLowerCase(headers.keys[i]) \in AuthHeaders

\* options.apiKey is a non-empty string
HasApiKey(opts) == "apiKey" \in DOMAIN opts /\ opts.apiKey # <<>>

\* options.header once the API key, if provided, is added to the headers
HeadersWithApiKey(spec, opts) ==
  IF ~HasApiKey(opts) THEN opts.header
  ELSE IF getAuthType(spec) = "bearer"
  THEN Put(opts.header, Authorization, Str(<<"B", "e", "a", "r", "e", "r", " ">> \o opts.apiKey))
  ELSE IF getAuthType(spec) = "apiKey" /\ getApiKeyDetails(spec).in = "header"
  THEN Put(opts.header, getApiKeyDetails(spec).name, Str(opts.apiKey))
  ELSE opts.header

(* ----------------------- the description served ----------------------- *)

K_petId == <<"p", "e", "t", "I", "d">>
K_limit == <<"l", "i", "m", "i", "t">>
K_api_key == <<"a", "p", "i", "_", "k", "e", "y">>
K_name == <<"n", "a", "m", "e">>
K_tags == <<"t", "a", "g", "s">>
K_color == <<"c", "o", "l", "o", "r">>
K_id == <<"i", "d">>
K_message == <<"m", "e", "s", "s", "a", "g", "e">>

\* the operations of the description: a list with a declared query
\* parameter that has the name of the API key, a lookup by path parameter,
\* an operation with no parameters and no operationId, an update with path,
\* query and an object body, and a batch creation with an array body
ListPets ==
  [operationId |-> <<"l", "i", "s", "t", "P", "e", "t", "s">>,
   parameters |-> <<[name |-> K_limit, in |-> "query", schema |-> [type |-> "integer"]],
                   [name |-> K_api_key, in |-> "query", schema |-> [type |-> "string"]]>>]
GetPet ==
  [operationId |-> <<"g", "e", "t", "P", "e", "t">>,
   parameters |-> <<[name |-> K_petId, in |-> "path", required |-> TRUE,
                     schema |-> [type |-> "string"]]>>]
Ping == [summary |-> <<"P", "i", "n", "g">>]
UpdatePet ==
  [operationId |-> <<"u", "p", "d", "a", "t", "e", "P", "e", "t">>,
   parameters |-> <<[name |-> K_petId, in |-> "path", required |-> TRUE,
                     schema |-> [type |-> "string"]],
                   [name |-> K_limit, in |-> "query", schema |-> [type |-> "integer"]]>>,
   requestBody |->
     [content |->
        (ApplicationJson :>
           [schema |->
              [type |-> "object",
               required |-> <<K_name>>,
               properties |->
                 Obj(<<K_name, K_tags>>,
                     (K_name :> [type |-> "string"])
                       @@ (K_tags :> [type |-> "array", items |-> [type |-> "string"]]))]])]]
AddPets ==
  [operationId |-> <<"a", "d", "d", "P", "e", "t", "s">>,
   requestBody |->
     [content |->
        (ApplicationJson :>
           [schema |-> [type |-> "array", items |-> [type |-> "object"]]])]]

Paths ==
  <<[path |-> <<"/", "p", "e", "t", "s">>,
     item |-> <<[key |-> <<"p", "a", "r", "a", "m", "e", "t", "e", "r", "s">>, value |-> <<>>], [key |-> <<"g", "e", "t">>, value |-> ListPets]>>],
    [path |-> <<"/", "p", "e", "t", "s", "/", "{", "p", "e", "t", "I", "d", "}">>,
     item |-> <<[key |-> <<"g", "e", "t">>, value |-> GetPet], [key |-> <<"p", "u", "t">>, value |-> UpdatePet]>>],
    [path |-> <<"/", "p", "i", "n", "g">>, item |-> <<[key |-> <<"g", "e", "t">>, value |-> Ping]>>],
    [path |-> <<"/", "p", "e", "t", "s", "/", "b", "a", "t", "c", "h">>, item |-> <<[key |-> <<"p", "o", "s", "t">>, value |-> AddPets]>>]>>

ApiKeyInQuery == [type |-> "apiKey", name |-> K_api_key, in |-> "query"]
ApiKeyInHeader == [type |-> "apiKey", name |-> <<"X", "-", "A", "P", "I", "-", "K", "e", "y">>, in |-> "header"]
BearerScheme == [type |-> "http", scheme |-> "bearer"]

\* the security schemes a description may declare, in declaration order
\* (<<>>: the description has no components)
SecuritySchemeChoices == {<<>>, <<ApiKeyInQuery>>, <<ApiKeyInHeader>>, <<BearerScheme>>}

\* the API description with the given security schemes
Description(securitySchemes) ==
  [openapi |-> <<"3", ".", "0", ".", "0">>,
   info |-> [title |-> <<"P", "e", "t", "s", "t", "o", "r", "e">>, version |-> <<"1", ".", "2", ".", "0">>],
   servers |-> <<[url |-> <<"h", "t", "t", "p", "s", ":", "/", "/", "a", "p", "i", ".", "t", "e", "s", "t">>]>>,
   paths |-> Paths]
    @@ (IF securitySchemes = <<>> THEN EmptyMap
        ELSE [components |-> [securitySchemes |-> securitySchemes]])

Credential == <<"a", "b", "c">>

\* the options a caller constructs the generator or the client with
OptionChoices ==
  {EmptyMap,
   [apiKey |-> Credential],
   [apiKey |-> Credential, baseUrl |-> <<"h", "t", "t", "p", "s", ":", "/", "/", "t", "e", "s", "t">>,
    headers |-> Obj(<<<<"X", "-", "T", "r", "a", "c", "e">>>>, (<<"X", "-", "T", "r", "a", "c", "e">> :> Str(<<"1">>)))]}

(* ----------------------- invocation arguments ------------------------- *)

RECURSIVE ObjectsOver(_)
\* the objects that hold, for each entry of choices, either no such key or
\* one of the entry's values
ObjectsOver(choices) ==
  IF choices = <<>> THEN {EmptyObj}
  ELSE LET last == choices[Len(choices)]
           rest == ObjectsOver(SubSeq(choices, 1, Len(choices) - 1))
       IN rest \cup {Put(o, last.key, val) : o \in rest, val \in last.values}

NestedName == Obj(<<K_name>>, (K_name :> Str(<<"M", "a", "x">>)))
NestedTags ==
  Obj(<<K_tags, K_color, K_limit, K_petId>>,
      (K_tags :> Str(<<"a", ",", " ", "b">>)) @@ (K_color :> Str(<<"r", "e", "d">>))
        @@ (K_limit :> Num(5)) @@ (K_petId :> Str(<<"9">>)))

\* the arguments the tools are invoked with, run after run
ArgChoices(name) ==
  CASE name = <<"l", "i", "s", "t", "P", "e", "t", "s">> -> ObjectsOver(<<[key |-> K_limit, values |-> {Num(10)}]>>)
    [] name = <<"g", "e", "t", "P", "e", "t">> ->
         ObjectsOver(<<[key |-> K_petId, values |-> {Str(<<"4", "2">>), Str(<<Surrogate>>)}]>>)
    [] name = <<"u", "p", "d", "a", "t", "e", "P", "e", "t">> ->
         ObjectsOver(<<[key |-> K_name, values |-> {Str(<<"R", "e", "x">>)}],
                       [key |-> BodyKey, values |-> {NestedName}]>>)
    [] name = <<"a", "d", "d", "P", "e", "t", "s">> ->
         ObjectsOver(<<[key |-> BodyKey, values |-> {Arr(<<Num(1), Num(2)>>)}]>>)
    [] OTHER -> ObjectsOver(<<[key |-> K_api_key, values |-> {Str(<<"e", "v", "i", "l">>)}]>>)

\* the arguments one request is marshaled from
MarshalArgChoices(name) ==
  CASE name = <<"l", "i", "s", "t", "P", "e", "t", "s">> ->
         ObjectsOver(<<[key |-> K_limit, values |-> {Num(10)}],
                       [key |-> K_api_key, values |-> {Str(<<"e", "v", "i", "l">>)}]>>)
    [] name = <<"g", "e", "t", "P", "e", "t">> ->
         ObjectsOver(<<[key |-> K_petId,
                        values |-> {Str(<<"4", "2">>), Str(<<"a", " ", "b">>), Num(0), Num(7), Bool(FALSE),
                                    Bool(TRUE), Str(<<Surrogate>>)}],
                       [key |-> K_api_key, values |-> {Str(<<"e", "v", "i", "l">>)}]>>)
    [] name = <<"u", "p", "d", "a", "t", "e", "P", "e", "t">> ->
         ObjectsOver(<<[key |-> K_petId, values |-> {Str(<<"4", "2">>)}],
                       [key |-> K_limit, values |-> {Num(10)}],
                       [key |-> K_name, values |-> {Str(<<"R", "e", "x">>)}],
                       [key |-> K_tags,
                        values |-> {Arr(<<Str(<<"x">>)>>), Str(<<"a", ",", " ", "b">>), Str(<<"[", ",", "]">>), Str(<<"[", "1", ",", "2", "]">>)}],
                       [key |-> K_color, values |-> {Str(<<"r", "e", "d">>)}],
                       [key |-> BodyKey,
                        values |-> {NestedName, NestedTags, Null, Arr(<<Str(<<"x">>)>>)}]>>)
    [] name = <<"a", "d", "d", "P", "e", "t", "s">> ->
         ObjectsOver(<<[key |-> K_name, values |-> {Str(<<"R", "e", "x">>)}],
                       [key |-> BodyKey,
                        values |-> {Arr(<<>>), Arr(<<Num(1), Num(2)>>), NestedName,
                                    Str(<<"[", "1", "]">>)}]>>)
    [] OTHER -> ObjectsOver(<<[key |-> K_api_key, values |-> {Str(<<"e", "v", "i", "l">>)}]>>)

\* the longest string tried as the value of an array-typed property
MaxStrLen == 4
ArrayAlphabet == {"[", "]", ",", " ", "1", "a"}
\* every string over ArrayAlphabet of at most MaxStrLen characters
ArrayStrings == UNION {[1..n -> ArrayAlphabet] : n \in 0..MaxStrLen}

\* the ways client.request(config) ends: a response with its status and
\* decoded body, no response, a failure while setting the request up, or an
\* exception that is no AxiosError (an Error, or any other thrown value)
Outcomes ==
  {[kind |-> "response", status |-> 200, data |-> Str(<<"p", "o", "n", "g">>)],
   [kind |-> "response", status |-> 200, data |-> Obj(<<K_id>>, (K_id :> Num(7)))],
   [kind |-> "response", status |-> 404,
    data |-> Obj(<<K_message>>, (K_message :> Str(<<"N", "o", "t", " ", "F", "o", "u", "n", "d">>)))],
   [kind |-> "response", status |-> 500, data |-> Str(<<"b", "o", "o", "m">>)],
   [kind |-> "noResponse"],
   [kind |-> "setup", message |-> <<"t", "i", "m", "e", "o", "u", "t">>],
   [kind |-> "thrown", error |-> [isError |-> TRUE, message |-> <<"s", "o", "c", "k", "e", "t", " ", "c", "l", "o", "s", "e", "d">>]],
   [kind |-> "thrown", error |-> [isError |-> FALSE, value |-> Str(<<"o", "o", "p", "s">>)]]}

(* --------------------------- the state machine ------------------------ *)

VARIABLES
  openApiSpec,    \* the API description
  options,        \* the options the caller constructed with
  mode,           \* "server": MCPServerGenerator; "library": HttpClient used directly
  httpClient,     \* the HttpClient: its fields and default headers
  tools,          \* the tool registry, by name
  openApiLookup,  \* the operation of each tool, by name
  exited,         \* the process has exited
  pc,             \* "idle", or "awaiting" the response of the request in flight
  call,           \* the last invocation: tool, arguments and marshaled request
  result,         \* what the last invocation settled to
  failedBefore,   \* an invocation before the last one failed
  converter,      \* the OpenAPIToMCPConverter: its operations, and the conversions made
  cli,            \* the run of the command line: its position, options and headers
  inflight,       \* the invocations dispatched side by side, in order of dispatch
  claudeDesktop   \* the Claude Desktop config file: whether it is found, and its text

vars == <<openApiSpec, options, mode, httpClient, tools, openApiLookup, exited, pc, call,
          result, failedBefore, converter, cli, inflight, claudeDesktop>>

config == <<openApiSpec, options, mode, httpClient, tools, openApiLookup, exited, converter,
            cli, inflight, claudeDesktop>>

\* no command line run: the generator or the client was built by a program
NoCli == [pc |-> "none"]

\* no path of a Claude Desktop config file is known (findClaudeDesktopConfig
\* returns null)
NoConfigFile == [found |-> FALSE]

NoCall == [made |-> FALSE]
NoResult == [settled |-> FALSE]

\* the state once the generator (server) or the client (library) is built
\* and the tools are converted
Init ==
  \E securitySchemes \in SecuritySchemeChoices, given \in OptionChoices,
     m \in {"server", "library"} :
    LET spec == Description(securitySchemes)
        converted == convertToMCPTools(parseOperations(spec))
    IN /\ openApiSpec = spec
       /\ options = given
       /\ mode = m
       /\ httpClient = IF m = "server" THEN MCPServerGenerator(spec, given).httpClient
                       ELSE HttpClient(given, spec)
       /\ tools = converted.tools
       /\ openApiLookup = converted.openApiLookup
       /\ exited = FALSE
       /\ pc = "idle"
       /\ call = NoCall
       /\ result = NoResult
       /\ failedBefore = FALSE
       /\ converter = [operations |-> parseOperations(spec), conversions |-> 1]
       /\ cli = NoCli
       /\ inflight = <<>>
       /\ claudeDesktop = NoConfigFile

\* the last invocation failed
Failed == result.settled /\ ~result.promise.ok

\* tool `name` can be invoked now
CanInvoke(name) == ~exited /\ pc = "idle" /\ name \in DOMAIN openApiLookup

\* what an invocation does up to its request: marshal, then either wait
\* for the response or settle at once with the exception thrown
Begin(name, params) ==
  LET plan == RequestConfig(httpClient, openApiLookup[name], params)
  IN /\ call' = [made |-> TRUE, name |-> name, params |-> params, plan |-> plan]
     /\ failedBefore' = (failedBefore \/ Failed)
     /\ IF plan.thrown
        THEN /\ pc' = "idle"
             /\ result' = [settled |-> TRUE, requested |-> FALSE,
                            promise |-> RejectedEarly(plan)]
                            @@ (IF mode = "server"
                                THEN [handler |-> toolHandler(RejectedEarly(plan))]
                                ELSE EmptyMap)
        ELSE /\ pc' = "awaiting"
             /\ result' = NoResult

\* the MCP layer invokes a registered tool handler
Invoke ==
  /\ mode = "server"
  /\ \E name \in DOMAIN tools :
       /\ CanInvoke(name)
       /\ \E params \in ArgChoices(name) : Begin(name, params)
  /\ UNCHANGED config

\* a caller of the library calls executeOperation on its client
Execute ==
  /\ mode = "library"
  /\ \E name \in DOMAIN openApiLookup :
       /\ CanInvoke(name)
       /\ \E params \in ArgChoices(name) : Begin(name, params)
  /\ UNCHANGED config

\* a handler that ends the process when the call fails
Respond_exit ==
  /\ ~exited
  /\ pc = "awaiting"
  /\ \E outcome \in Outcomes :
       /\ result' = [settled |-> TRUE, requested |-> TRUE, outcome |-> outcome,
                     promise |-> executeOperation(outcome)]
                      @@ (IF mode = "server"
                          THEN [handler |-> toolHandler(executeOperation(outcome))]
                          ELSE EmptyMap)
       /\ exited' = (mode = "server" /\ ~executeOperation(outcome).ok)
  /\ pc' = "idle"
  /\ UNCHANGED <<call, failedBefore>>
  /\ UNCHANGED <<openApiSpec, options, mode, httpClient, tools, openApiLookup, converter, cli,
                 inflight, claudeDesktop>>

\* the request in flight ends, and the invocation settles
Respond ==
  /\ ~exited
  /\ pc = "awaiting"
  /\ \E outcome \in Outcomes :
       result' = [settled |-> TRUE, requested |-> TRUE, outcome |-> outcome,
                  promise |-> executeOperation(outcome)]
                   @@ (IF mode = "server"
                       THEN [handler |-> toolHandler(executeOperation(outcome))]
                       ELSE EmptyMap)
  /\ pc' = "idle"
  /\ UNCHANGED <<call, failedBefore>>
  /\ UNCHANGED config

Next == Invoke \/ Execute \/ Respond

Spec == Init /\ [][Next]_vars

\* the first invocation after construction: one request is marshaled
FirstCall ==
  /\ ~call.made
  /\ \E name \in DOMAIN openApiLookup :
       /\ CanInvoke(name)
       /\ \E params \in MarshalArgChoices(name) : Begin(name, params)
  /\ UNCHANGED config

\* marshaling alone: every client, every operation, one request
SpecMarshal == Init /\ [][FirstCall]_vars

\* a client for the description without security schemes, default options
InitPlain == Init /\ mode = "library" /\ options = EmptyMap /\ "components" \notin DOMAIN openApiSpec

\* updatePet is called with `tags` given as a string
TagsCall ==
  /\ ~call.made
  /\ CanInvoke(<<"u", "p", "d", "a", "t", "e", "P", "e", "t">>)
  /\ \E s \in ArrayStrings : Begin(<<"u", "p", "d", "a", "t", "e", "P", "e", "t">>, Obj(<<K_tags>>, (K_tags :> Str(s))))
  /\ UNCHANGED config

\* the recovery of arrays from strings alone
SpecArray == InitPlain /\ [][TagsCall]_vars

(* -------------------------- further body shapes ----------------------- *)

K_file == <<"f", "i", "l", "e">>
K_trace == <<"X", "-", "T", "r", "a", "c", "e">>

\* the parameters of the operations below: one in the path, one in the
\* query, one in a header
LocatedParameters ==
  <<[name |-> K_petId, in |-> "path", required |-> TRUE, schema |-> [type |-> "string"]],
    [name |-> K_limit, in |-> "query", schema |-> [type |-> "integer"]],
    [name |-> K_trace, in |-> "header", schema |-> [type |-> "string"]]>>

FileSchema ==
  [type |-> "object",
   properties |-> Obj(<<K_name, K_file>>,
                      (K_name :> [type |-> "string"])
                        @@ (K_file :> [type |-> "string", format |-> "binary"]))]

\* bodies declared as multipart/form-data alone, and next to application/json
UploadFile ==
  [operationId |-> <<"u", "p", "l", "o", "a", "d", "F", "i", "l", "e">>,
   parameters |-> LocatedParameters,
   requestBody |-> [content |-> (MultipartFormData :> [schema |-> FileSchema])]]
UploadEither ==
  [operationId |-> <<"u", "p", "l", "o", "a", "d", "E", "i", "t", "h", "e", "r">>,
   parameters |-> LocatedParameters,
   requestBody |-> [content |-> (ApplicationJson :> [schema |-> FileSchema])
                                  @@ (MultipartFormData :> [schema |-> FileSchema])]]

\* application/json bodies of each shape, on operations with parameters: an
\* object with properties, a reference, an object without properties, an
\* array
StoreFile ==
  [operationId |-> <<"s", "t", "o", "r", "e", "F", "i", "l", "e">>,
   parameters |-> LocatedParameters,
   requestBody |-> [content |-> (ApplicationJson :> [schema |-> FileSchema])]]
ReplaceById ==
  [operationId |-> <<"r", "e", "p", "l", "a", "c", "e", "B", "y", "I", "d">>,
   parameters |-> LocatedParameters,
   requestBody |-> [content |-> (ApplicationJson :> [schema |-> ("$ref" :> <<"#", "/", "c", "o", "m", "p", "o", "n", "e", "n", "t", "s", "/", "s", "c", "h", "e", "m", "a", "s", "/", "P", "e", "t">>)])]]
AnnotateById ==
  [operationId |-> <<"a", "n", "n", "o", "t", "a", "t", "e", "B", "y", "I", "d">>,
   parameters |-> LocatedParameters,
   requestBody |-> [content |-> (ApplicationJson :> [schema |-> [type |-> "object"]])]]
AddPetsTo ==
  [operationId |-> <<"a", "d", "d", "P", "e", "t", "s", "T", "o">>,
   parameters |-> LocatedParameters,
   requestBody |-> [content |-> (ApplicationJson :>
                                   [schema |-> [type |-> "array", items |-> [type |-> "object"]]])]]

BodyPaths ==
  <<[path |-> <<"/", "p", "e", "t", "s", "/", "{", "p", "e", "t", "I", "d", "}", "/", "f", "i", "l", "e">>,
     item |-> <<[key |-> <<"p", "o", "s", "t">>, value |-> UploadFile], [key |-> <<"p", "u", "t">>, value |-> UploadEither],
                [key |-> <<"p", "a", "t", "c", "h">>, value |-> StoreFile]>>],
    [path |-> <<"/", "p", "e", "t", "s", "/", "{", "p", "e", "t", "I", "d", "}">>,
     item |-> <<[key |-> <<"p", "u", "t">>, value |-> ReplaceById], [key |-> <<"p", "a", "t", "c", "h">>, value |-> AnnotateById],
                [key |-> <<"p", "o", "s", "t">>, value |-> AddPetsTo]>>]>>

\* the arguments these operations are called with: flat, or with the body
\* fields grouped under `body`
BodyArgChoices ==
  ObjectsOver(<<[key |-> K_petId, values |-> {Str(<<"4", "2">>)}],
                [key |-> K_limit, values |-> {Num(10)}],
                [key |-> K_trace, values |-> {Str(<<"t", "1">>)}],
                [key |-> K_name, values |-> {Str(<<"R", "e", "x">>)}],
                [key |-> K_file, values |-> {Str(<<"d", "a", "t", "a">>)}],
                [key |-> BodyKey,
                 values |-> {Obj(<<K_name, K_file>>, (K_name :> Str(<<"M", "a", "x">>)) @@ (K_file :> Str(<<"d", "a", "t", "a">>))),
                             Arr(<<NestedName>>)}]>>)

\* a generator or a client for the description with these operations
InitBodies ==
  \E securitySchemes \in {<<>>, <<ApiKeyInQuery>>}, given \in {EmptyMap, [apiKey |-> Credential]},
     m \in {"server", "library"} :
    LET spec == [p \in {"paths"} |-> BodyPaths] @@ Description(securitySchemes)
        converted == convertToMCPTools(parseOperations(spec))
    IN /\ openApiSpec = spec
       /\ options = given
       /\ mode = m
       /\ httpClient = IF m = "server" THEN MCPServerGenerator(spec, given).httpClient
                       ELSE HttpClient(given, spec)
       /\ tools = converted.tools
       /\ openApiLookup = converted.openApiLookup
       /\ exited = FALSE
       /\ pc = "idle"
       /\ call = NoCall
       /\ result = NoResult
       /\ failedBefore = FALSE
       /\ converter = [operations |-> parseOperations(spec), conversions |-> 1]
       /\ cli = NoCli
       /\ inflight = <<>>
       /\ claudeDesktop = NoConfigFile

\* the first invocation of one of these operations: one request is marshaled
BodyCall ==
  /\ ~call.made
  /\ \E name \in DOMAIN openApiLookup :
       /\ CanInvoke(name)
       /\ \E params \in BodyArgChoices : Begin(name, params)
  /\ UNCHANGED config

\* marshaling of bodies of every shape and content type
SpecBodies == InitBodies /\ [][BodyCall]_vars

(* ----------------------- invocations side by side --------------------- *)

\* the most invocations in flight at once
MaxInvocations == 2

\* the arguments of the invocations dispatched side by side
ConcurrentArgs(name) ==
  CASE name = <<"l", "i", "s", "t", "P", "e", "t", "s">> -> {Obj(<<K_limit>>, (K_limit :> Num(10))), Obj(<<K_limit>>, (K_limit :> Num(5)))}
    [] name = <<"g", "e", "t", "P", "e", "t">> -> {Obj(<<K_petId>>, (K_petId :> Str(<<"4", "2">>))), Obj(<<K_petId>>, (K_petId :> Str(<<Surrogate>>)))}
    [] name = <<"u", "p", "d", "a", "t", "e", "P", "e", "t">> -> {Obj(<<K_name>>, (K_name :> Str(<<"R", "e", "x">>)))}
    [] name = <<"a", "d", "d", "P", "e", "t", "s">> -> {Obj(<<BodyKey>>, (BodyKey :> Arr(<<Num(1), Num(2)>>)))}
    [] OTHER -> {EmptyObj}

\* how the requests of these invocations end
ConcurrentOutcomes ==
  {o \in Outcomes : o.kind = "noResponse" \/ (o.kind = "response" /\ o.status \in {200, 404})}

\* what an invocation has settled to: the promise of executeOperation and,
\* in a server, what the tool handler resolves with
SettledWith(promise) ==
  [settled |-> TRUE, promise |-> promise]
    @@ (IF mode = "server" THEN [handler |-> toolHandler(promise)] ELSE EmptyMap)

\* an invocation up to its request: the request is marshaled from the
\* invocation's own arguments, the operation and the fields of the client
Started(name, params) ==
  LET plan == RequestConfig(httpClient, openApiLookup[name], params)
  IN (IF plan.thrown THEN SettledWith(RejectedEarly(plan)) ELSE [settled |-> FALSE])
       @@ [name |-> name, params |-> params, plan |-> plan]

\* a client that keeps one query map for all its requests: the map of a
\* request holds the entries of the requests before it
Dispatch_sharedQuery ==
  /\ ~exited
  /\ Len(inflight) < MaxInvocations
  /\ \E name \in DOMAIN openApiLookup :
       \E params \in ConcurrentArgs(name) :
         LET own == Started(name, params)
             last == inflight[Len(inflight)]
         IN inflight' =
              Append(inflight,
                     IF inflight = <<>> \/ own.plan.thrown \/ last.plan.thrown THEN own
                     ELSE [own EXCEPT !.plan.config.params =
                             Spread(last.plan.config.params, @, Keys(@))])
  /\ UNCHANGED <<openApiSpec, options, mode, httpClient, tools, openApiLookup, exited, pc, call,
                 result, failedBefore, converter, cli, claudeDesktop>>

\* a tool handler is invoked, or executeOperation is called, while earlier
\* invocations may still await their responses
Dispatch ==
  /\ ~exited
  /\ Len(inflight) < MaxInvocations
  /\ \E name \in DOMAIN openApiLookup :
       \E params \in ConcurrentArgs(name) :
         inflight' = Append(inflight, Started(name, params))
  /\ UNCHANGED <<openApiSpec, options, mode, httpClient, tools, openApiLookup, exited, pc, call,
                 result, failedBefore, converter, cli, claudeDesktop>>

\* the request of any one of the invocations in flight ends
Settle ==
  /\ ~exited
  /\ \E i \in DOMAIN inflight :
       /\ ~inflight[i].settled
       /\ \E outcome \in ConcurrentOutcomes :
            inflight' = [inflight EXCEPT ![i] =
                           SettledWith(executeOperation(outcome)) @@ [outcome |-> outcome] @@ @]
  /\ UNCHANGED <<openApiSpec, options, mode, httpClient, tools, openApiLookup, exited, pc, call,
                 result, failedBefore, converter, cli, claudeDesktop>>

\* a generator or a client for a description with or without a query key
InitConcurrent ==
  /\ Init
  /\ options = [apiKey |-> Credential]
  /\ \/ "components" \notin DOMAIN openApiSpec
     \/ openApiSpec.components.securitySchemes = <<ApiKeyInQuery>>

\* invocations dispatched and settled in any order
SpecConcurrent == InitConcurrent /\ [][Dispatch \/ Settle]_vars

(* ------------------------ conversion on its own ------------------------ *)

\* operations for the converter: one with enumerated and date-time string
\* parameters, one with a referenced body, one with an object body that
\* declares no properties, one with an empty operationId, one named `id`
ByStatus ==
  [operationId |-> <<"b", "y", "S", "t", "a", "t", "u", "s">>, summary |-> <<"F", "i", "n", "d">>, description |-> <<"F", "i", "n", "d", "s", " ", "p", "e", "t", "s">>,
   parameters |->
     <<[name |-> <<"s", "t", "a", "t", "u", "s">>, in |-> "query", description |-> <<"a", " ", "o", "r", " ", "b">>,
        schema |-> [type |-> "string", enum |-> <<<<"a">>, <<"b">>>>]],
       [name |-> <<"w", "h", "e", "n">>, in |-> "query",
        schema |-> [type |-> "string", enum |-> <<<<"a">>, <<"b">>>>, format |-> "date-time"]],
       [name |-> <<"s", "i", "n", "c", "e">>, in |-> "query", required |-> TRUE,
        schema |-> [type |-> "string", format |-> "date-time"]]>>]
ReplacePet ==
  [operationId |-> <<"r", "e", "p", "l", "a", "c", "e", "P", "e", "t">>,
   requestBody |->
     [required |-> TRUE,
      content |-> (ApplicationJson :> [schema |-> ("$ref" :> <<"#", "/", "c", "o", "m", "p", "o", "n", "e", "n", "t", "s", "/", "s", "c", "h", "e", "m", "a", "s", "/", "P", "e", "t">>)])]]
Annotate ==
  [operationId |-> <<"a", "n", "n", "o", "t", "a", "t", "e">>,
   requestBody |-> [content |-> (ApplicationJson :> [schema |-> [type |-> "object"]])]]
EmptyId == [operationId |-> <<>>]
Named(id) == [operationId |-> id]

\* an operation whose object body has an enumerated string property, a
\* date-time property, a plain string property and an object property
Planner ==
  [operationId |-> <<"p", "l", "a", "n">>,
   requestBody |->
     [content |->
        (ApplicationJson :>
           [schema |->
              [type |-> "object",
               required |-> <<<<"w", "h", "e", "n">>>>,
               properties |->
                 Obj(<<<<"s", "t", "a", "t", "u", "s">>, <<"w", "h", "e", "n">>, <<"n", "o", "t", "e">>, <<"o", "w", "n", "e", "r">>>>,
                     (<<"s", "t", "a", "t", "u", "s">> :> [type |-> "string", enum |-> <<<<"a">>, <<"b">>>>])
                       @@ (<<"w", "h", "e", "n">> :> [type |-> "string", format |-> "date-time"])
                       @@ (<<"n", "o", "t", "e">> :> [type |-> "string"])
                       @@ (<<"o", "w", "n", "e", "r">> :> [type |-> "object"]))]])]]

\* the path items tried: entries in declaration order, verbs and other keys
PathItems ==
  {<<[key |-> <<"g", "e", "t">>, value |-> Ping], [key |-> <<"p", "u", "t">>, value |-> Planner]>>,
   <<[key |-> <<"p", "a", "r", "a", "m", "e", "t", "e", "r", "s">>, value |-> <<>>], [key |-> <<"g", "e", "t">>, value |-> Named(<<"g", "e", "t", "P", "e", "t">>)],
     [key |-> <<"h", "e", "a", "d">>, value |-> EmptyId]>>,
   <<[key |-> <<"s", "u", "m", "m", "a", "r", "y">>, value |-> <<"s">>], [key |-> <<"p", "o", "s", "t">>, value |-> Named(<<"g", "e", "t", "P", "e", "t">>)],
     [key |-> <<"o", "p", "t", "i", "o", "n", "s">>, value |-> ByStatus], [key |-> <<"t", "r", "a", "c", "e">>, value |-> Ping]>>,
   <<[key |-> <<"p", "u", "t">>, value |-> UpdatePet], [key |-> <<"d", "e", "l", "e", "t", "e">>, value |-> ReplacePet],
     [key |-> <<"p", "a", "t", "c", "h">>, value |-> Annotate]>>,
   <<[key |-> <<"G", "E", "T">>, value |-> Ping], [key |-> <<"g", "e", "t">>, value |-> Named(<<"G", "E", "T", "_", "_", "a", "_", "b">>)],
     [key |-> <<"p", "o", "s", "t">>, value |-> AddPets]>>}

\* the paths tried: their synthesized names collide or differ by a blank
ConverterPaths == {<<"/", "a", "-", "b">>, <<"/", "a", "_", "b">>, <<"/", "a", " ", "b">>}

\* the path tables tried: one or two paths, no path twice
PathTables ==
  {<<[path |-> p, item |-> i]>> : p \in ConverterPaths, i \in PathItems}
    \cup UNION {{<<[path |-> p, item |-> i], [path |-> q, item |-> j]>> :
                    q \in ConverterPaths \ {p}, i \in PathItems, j \in PathItems} :
                 p \in ConverterPaths}

\* security schemes in several choices and orders
ConverterSchemes == {<<>>, <<BearerScheme, ApiKeyInQuery>>, <<ApiKeyInHeader, BearerScheme>>}

\* the description with the given path table and security schemes
DescriptionOf(paths, securitySchemes) ==
  [p \in {"paths"} |-> paths] @@ Description(securitySchemes)

\* the most calls of convertToMCPTools on one converter
MaxConversions == 2

\* a converter was constructed for a description: the operations are parsed
ConverterFor(spec) ==
  /\ openApiSpec = spec
  /\ options = EmptyMap
  /\ mode = "library"
  /\ httpClient = HttpClient(EmptyMap, spec)
  /\ tools = EmptyMap
  /\ openApiLookup = EmptyMap
  /\ exited = FALSE
  /\ pc = "idle"
  /\ call = NoCall
  /\ result = NoResult
  /\ failedBefore = FALSE
  /\ converter = [operations |-> parseOperations(spec), conversions |-> 0]
  /\ cli = NoCli
  /\ inflight = <<>>
  /\ claudeDesktop = NoConfigFile

InitConvert ==
  \E paths \in PathTables, securitySchemes \in ConverterSchemes :
    ConverterFor(DescriptionOf(paths, securitySchemes))

\* convertToMCPTools is called on the converter
Convert ==
  /\ converter.conversions < MaxConversions
  /\ IF ConversionRaises(converter.operations)
     THEN /\ converter' = [raised |-> "TypeError"] @@ [converter EXCEPT !.conversions = @ + 1]
          /\ UNCHANGED <<tools, openApiLookup>>
     ELSE /\ LET converted == convertToMCPTools(converter.operations)
             IN /\ tools' = converted.tools
                /\ openApiLookup' = converted.openApiLookup
          /\ converter' = [converter EXCEPT !.conversions = @ + 1]
  /\ UNCHANGED <<openApiSpec, options, mode, httpClient, exited, pc, call, result, failedBefore,
                 cli, inflight, claudeDesktop>>

\* the values an argument is validated with
ValidatedValues ==
  {Undefined, Str(<<"a">>), Str(<<"b">>), Str(<<"c">>), Str(<<"2", "0", "2", "0", "-", "0", "1", "-", "0", "1", "T", "0", "0", ":", "0", "0", ":", "0", "0", "Z">>), Num(1),
   NestedName, Arr(<<Num(1)>>)}

\* the first arguments arrive: a value is validated against the rule of one
\* parameter of a tool
Validate ==
  /\ converter.conversions > 0
  /\ ~call.made
  /\ \E name \in DOMAIN tools :
       \E i \in DOMAIN tools[name].parameters.keys, value \in ValidatedValues :
         LET param == tools[name].parameters.keys[i]
         IN /\ call' = [made |-> TRUE, name |-> name, param |-> param, value |-> value]
            /\ result' = [settled |-> TRUE,
                          accepted |-> Accepts(tools[name].parameters.v[param], value)]
  /\ UNCHANGED <<failedBefore, pc>>
  /\ UNCHANGED config

\* conversion and validation, for every description tried
SpecConvert == InitConvert /\ [][Convert \/ Validate]_vars

\* the characters of the paths whose names are synthesized
PathAlphabet == {"/", "a", "B", "1", " ", "-", "_"}
\* the most characters after the leading slash
MaxPathLen == 3
SynthPaths == {<<"/">> \o rest : rest \in UNION {[1..n -> PathAlphabet] : n \in 0..MaxPathLen}}

\* a converter for one operation without operationId, any verb, any path
InitSynth ==
  \E path \in SynthPaths, method \in HttpMethods :
    ConverterFor(DescriptionOf(<<[path |-> path, item |-> <<[key |-> method, value |-> Ping]>>]>>,
                               <<>>))

\* the synthesis of names alone
SpecSynth == InitSynth /\ [][Convert]_vars

(* -------------------- fragments the converter meets -------------------- *)

\* the parameters tried: an integer, an array of strings, a schema without
\* type, a schema of a type the converter does not know, a parameter
\* described by `content`, a referenced parameter, an array without items
ParameterFragments ==
  {[name |-> <<"l", "i", "m", "i", "t">>, in |-> "query", schema |-> [type |-> "integer"]],
   [name |-> <<"t", "a", "g", "s">>, in |-> "query", required |-> TRUE,
    schema |-> [type |-> "array", items |-> [type |-> "string"]]],
   [name |-> <<"a", "n", "y">>, in |-> "query", schema |-> EmptyMap],
   [name |-> <<"n", "o", "n", "e">>, in |-> "query", schema |-> [type |-> "null"]],
   [name |-> <<"f", "i", "l", "t", "e", "r">>, in |-> "query",
    content |-> (ApplicationJson :> [schema |-> [type |-> "object"]])],
   ("$ref" :> <<"#", "/", "c", "o", "m", "p", "o", "n", "e", "n", "t", "s", "/", "p", "a", "r", "a", "m", "e", "t", "e", "r", "s", "/", "l", "i", "m", "i", "t">>),
   [name |-> <<"i", "d", "s">>, in |-> "query", schema |-> [type |-> "array"]]}

\* the body properties tried: a string, an array of numbers, a schema
\* without type, an array without items
PropertyFragments ==
  {[type |-> "string"], [type |-> "array", items |-> [type |-> "number"]], EmptyMap,
   [type |-> "array"]}

\* the bodies tried: an object with one property, an array without items
BodyFragments ==
  {[type |-> "object", properties |-> Obj(<<<<"f", "i", "e", "l", "d">>>>, (<<"f", "i", "e", "l", "d">> :> prop))] :
     prop \in PropertyFragments} \cup {[type |-> "array"]}

\* an operation with the given parameters, and with the body if one is given
Fragmentary(parameters, bodies) ==
  [operationId |-> <<"p", "r", "o", "b", "e">>, parameters |-> parameters]
    @@ (IF bodies = <<>> THEN EmptyMap
        ELSE [requestBody |-> [content |-> (ApplicationJson :> [schema |-> bodies[1]])]])

\* a converter for one operation made of one or two parameters and at most
\* one body
InitFragments ==
  \E parameters \in {<<p>> : p \in ParameterFragments}
                      \cup {<<p, q>> : p \in ParameterFragments, q \in ParameterFragments},
     bodies \in {<<>>} \cup {<<b>> : b \in BodyFragments} :
    ConverterFor(DescriptionOf(
      <<[path |-> <<"/", "p", "r", "o", "b", "e">>,
         item |-> <<[key |-> <<"p", "o", "s", "t">>, value |-> Fragmentary(parameters, bodies)]>>]>>, <<>>))

\* the conversion of the fragments
SpecFragments == InitFragments /\ [][Convert]_vars

(* ------------------------ the command line run ------------------------- *)

OAuth2Scheme == [type |-> "oauth2"]
BasicScheme == [type |-> "http", scheme |-> "basic"]

\* the security schemes of the descriptions the command is run on
CliSchemes ==
  {<<>>, <<BearerScheme>>, <<ApiKeyInHeader>>, <<ApiKeyInQuery>>,
   <<BearerScheme, ApiKeyInHeader>>, <<ApiKeyInHeader, BearerScheme>>,
   <<OAuth2Scheme, BearerScheme>>, <<BasicScheme, ApiKeyInHeader>>}

\* a security requirement, and where a description may state one
Requirement == <<[auth |-> <<>>]>>
SecurityPlacements == {"none", "rootEmpty", "root", "get", "getEmpty", "head", "options"}

\* the operation with the requirement, if it is placed on its verb
Secured(op, verb, placement) ==
  IF placement = verb THEN [security |-> Requirement] @@ op
  ELSE IF verb = "get" /\ placement = "getEmpty" THEN [security |-> <<>>] @@ op
  ELSE op

\* the description the command is run on
CliDescription(securitySchemes, placement) ==
  (IF placement = "root" THEN [security |-> Requirement]
   ELSE IF placement = "rootEmpty" THEN [security |-> <<>>]
   ELSE EmptyMap)
    @@ DescriptionOf(<<[path |-> <<"/", "p", "e", "t", "s">>,
                        item |-> <<[key |-> <<"g", "e", "t">>, value |-> Secured(ListPets, "get", placement)],
                                   [key |-> <<"h", "e", "a", "d">>, value |-> Secured(Ping, "head", placement)],
                                   [key |-> <<"o", "p", "t", "i", "o", "n", "s">>,
                                    value |-> Secured(Named(<<"d", "e", "s", "c", "r", "i", "b", "e">>), "options", placement)]>>]>>,
                     securitySchemes)

\* the required fields a description may lack
Lacks == {"", "openapi", "info", "paths"}

\* the description without one of its fields
Lacking(spec, field) == [k \in DOMAIN spec \ {field} |-> spec[k]]

\* the --header options given
CliHeaders ==
  {EmptyObj,
   Obj(<<Authorization>>, (Authorization :> Str(<<"B", "e", "a", "r", "e", "r", " ", "x">>))),
   Obj(<<<<"X", "-", "A", "P", "I", "-", "K", "e", "y">>>>, (<<"X", "-", "A", "P", "I", "-", "K", "e", "y">> :> Str(<<"k">>))),
   Obj(<<<<"X", "-", "T", "r", "a", "c", "e">>>>, (<<"X", "-", "T", "r", "a", "c", "e">> :> Str(<<"1">>)))}

\* the lines typed at the prompt for the API key
Answers == {<<>>, <<"a", "b", "c", " ">>}

(* -------------------- registering with Claude Desktop ---------------- *)

K_mcpServers == <<"m", "c", "p", "S", "e", "r", "v", "e", "r", "s">>
K_command == <<"c", "o", "m", "m", "a", "n", "d">>
K_args == <<"a", "r", "g", "s">>

\* the <spec> argument of the command
SpecPath == <<".", "/", "a", "p", "i", ".", "y", "a", "m", "l">>

\* path.basename(specPath, path.extname(specPath))
SpecBaseName == <<"a", "p", "i">>

\* title.toLowerCase().replace(/[^a-z0-9]/g, '_')
NameFromTitle(title) ==
  LET lower == toLowerCase(title)
  IN [i \in 1..Len(lower) |->
        IF (\E j \in 1..26 : LowerCase[j] = lower[i]) \/ IsDigit(lower[i]) THEN lower[i]
        ELSE "_"]

\* options.serverName || options.name || the name from the title || the
\* base name of the path
ServerNameOf(spec, opts) ==
  FirstGiven(opts, "serverName",
    FirstGiven(opts, "name",
      IF "title" \in DOMAIN spec.info /\ spec.info.title # <<>>
      THEN NameFromTitle(spec.info.title)
      ELSE SpecBaseName))

\* the flag and the value of an option that is given and not empty
Flag(flag, opts, field) ==
  IF FirstGiven(opts, field, <<>>) = <<>> THEN <<>> ELSE <<Str(flag), Str(opts[field])>>

\* the arguments of the registered command: the path, then -k, -n, -v, -u
\* for the options given, then -H for each header
RegisteredArgs(specPath, opts, headers) ==
  <<Str(specPath)>> \o Flag(<<"-", "k">>, opts, "apiKey") \o Flag(<<"-", "n">>, opts, "name")
    \o Flag(<<"-", "v">>, opts, "version") \o Flag(<<"-", "u">>, opts, "baseUrl")
    \o Concat([i \in 1..Len(headers.keys) |->
                 <<Str(<<"-", "H">>),
                   Str(headers.keys[i] \o <<":", " ">> \o StringOf(headers.v[headers.keys[i]]))>>])

\* fs.readFile and JSON.parse in their try block: a file that cannot be
\* read or parsed is taken for an empty config
ReadConfig(file, parsed) == IF file.exists /\ parsed.ok THEN parsed.val ELSE EmptyObj

\* config.mcpServers once `if (!config.mcpServers) config.mcpServers = {}`
\* has run
ServersOf(parsedConfig) ==
  IF parsedConfig.t # "obj" THEN EmptyObj
  ELSE IF ~Has(parsedConfig, K_mcpServers) THEN EmptyObj
  ELSE IF Truthy(Get(parsedConfig, K_mcpServers)) THEN Get(parsedConfig, K_mcpServers)
  ELSE EmptyObj

\* config.mcpServers[serverName] = entry and the write of the file: setting
\* a property of null or of a primitive throws, which is caught and logged,
\* and nothing is written; a property set on an array is not serialized
WriteConfig(parsedConfig, servers, serverName, entry) ==
  IF parsedConfig.t \notin {"obj", "arr"} \/ servers.t \notin {"obj", "arr"}
  THEN [written |-> FALSE]
  ELSE [written |-> TRUE,
        text |-> Stringify(IF parsedConfig.t = "arr" THEN parsedConfig
                           ELSE Put(parsedConfig, K_mcpServers,
                                    IF servers.t = "obj" THEN Put(servers, serverName, entry)
                                    ELSE servers),
                           2, 0)]

UpdateConfig(parsedConfig, serverName, entry) ==
  WriteConfig(parsedConfig, ServersOf(parsedConfig), serverName, entry)

\* registerWithClaudeDesktop for the config file as it is: whether the file
\* is written, and its text then
registerWithClaudeDesktop(file, serverName, args) ==
  IF ~file.found THEN [written |-> FALSE]
  ELSE UpdateConfig(ReadConfig(file, JSONparse(file.text)), serverName,
                    Obj(<<K_command, K_args>>,
                        (K_command :> Str(<<"o", "p", "e", "n", "a", "p", "i", "-", "t", "o", "-", "m", "c", "p">>))
                          @@ (K_args :> Arr(args))))

\* configs a file may hold: another server and another top-level key, with
\* or without an entry of the name registered
OtherServer == Obj(<<K_command>>, (K_command :> Str(<<"n", "p", "x">>)))
OtherConfig ==
  Obj(<<K_mcpServers, <<"t", "h", "e", "m", "e">>>>,
      (K_mcpServers :> Obj(<<<<"o", "t", "h", "e", "r">>>>, (<<"o", "t", "h", "e", "r">> :> OtherServer))) @@ (<<"t", "h", "e", "m", "e">> :> Str(<<"d", "a", "r", "k">>)))
SameNameConfig ==
  Obj(<<<<"t", "h", "e", "m", "e">>, K_mcpServers>>,
      (<<"t", "h", "e", "m", "e">> :> Str(<<"d", "a", "r", "k">>))
        @@ (K_mcpServers :> Obj(<<<<"p", "e", "t", "s", "t", "o", "r", "e">>, <<"o", "t", "h", "e", "r">>>>,
                                (<<"p", "e", "t", "s", "t", "o", "r", "e">> :> Obj(<<K_command>>, (K_command :> Str(<<"o", "l", "d">>))))
                                  @@ (<<"o", "t", "h", "e", "r">> :> OtherServer))))

\* the config file before the command runs: no path known, no file at the
\* path, or a file with one of these texts, one of them saved with a byte
\* order mark
ConfigFiles ==
  {NoConfigFile, [found |-> TRUE, exists |-> FALSE, text |-> <<>>]}
    \cup {[found |-> TRUE, exists |-> TRUE, text |-> text] :
            text \in {<<>>, <<"{", "}">>, <<"n", "u", "l", "l">>,
                      Stringify(OtherConfig, 2, 0), Stringify(SameNameConfig, 0, 0),
                      Stringify(Obj(<<K_mcpServers>>, (K_mcpServers :> Null)), 2, 0),
                      Stringify(Obj(<<K_mcpServers>>, (K_mcpServers :> Str(<<"x">>))), 2, 0),
                      <<ByteOrderMark>> \o Stringify(OtherConfig, 2, 0)}}

\* the command is started with --register, with or without --server-name,
\* --name and --api-key
InitRegister ==
  \E securitySchemes \in {<<>>, <<BearerScheme>>, <<ApiKeyInQuery>>},
     placement \in {"none", "root"},
     header \in {h \in CliHeaders : Len(h.keys) = 0 \/ h.keys[1] = <<"X", "-", "T", "r", "a", "c", "e">>},
     key \in {<<>>, Credential}, serverName \in {<<>>, <<"o", "t", "h", "e", "r">>}, name \in {<<>>, <<"M", "y", " ", "A", "P", "I">>},
     file \in ConfigFiles :
    /\ openApiSpec = CliDescription(securitySchemes, placement)
    /\ options = [header |-> header, register |-> TRUE]
                   @@ (IF key = <<>> THEN EmptyMap ELSE [apiKey |-> key])
                   @@ (IF serverName = <<>> THEN EmptyMap ELSE [serverName |-> serverName])
                   @@ (IF name = <<>> THEN EmptyMap ELSE [name |-> name])
    /\ mode = "server"
    /\ httpClient = EmptyMap
    /\ tools = EmptyMap
    /\ openApiLookup = EmptyMap
    /\ exited = FALSE
    /\ pc = "idle"
    /\ call = NoCall
    /\ result = NoResult
    /\ failedBefore = FALSE
    /\ converter = [operations |-> <<>>, conversions |-> 0]
    /\ cli = [pc |-> "start"]
    /\ inflight = <<>>
    /\ claudeDesktop = file

\* --register is given and the registration is still to be made
MustRegister == "register" \in DOMAIN options /\ options.register /\ "registered" \notin DOMAIN cli

\* the API key is added to the headers and the server is registered in the
\* config file of Claude Desktop under its name; a description without info
\* whose name must come from the title ends the run with exit code 1
CliRegister ==
  /\ cli.pc = "ready"
  /\ MustRegister
  /\ LET header == HeadersWithApiKey(openApiSpec, options)
     IN /\ options' = [options EXCEPT !.header = header]
        /\ IF /\ "info" \notin DOMAIN openApiSpec
              /\ FirstGiven(options, "serverName", <<>>) = <<>>
              /\ FirstGiven(options, "name", <<>>) = <<>>
           THEN /\ cli' = [error |-> "Cannot read properties of undefined"]
                            @@ [cli EXCEPT !.pc = "exited"]
                /\ exited' = TRUE
                /\ claudeDesktop' = claudeDesktop
           ELSE LET serverName == ServerNameOf(openApiSpec, options)
                    outcome == registerWithClaudeDesktop(claudeDesktop, serverName,
                                 RegisteredArgs(SpecPath, options, header))
                IN /\ cli' = [registered |-> serverName] @@ cli
                   /\ exited' = exited
                   /\ claudeDesktop' =
                        IF outcome.written
                        THEN [found |-> TRUE, exists |-> TRUE, text |-> outcome.text,
                              written |-> TRUE, prior |-> claudeDesktop]
                        ELSE claudeDesktop
  /\ UNCHANGED <<openApiSpec, mode, httpClient, tools, openApiLookup, pc, call, result,
                 failedBefore, converter, inflight>>

\* the command is started on a description, with or without --api-key and
\* with the --header options collected
InitCli ==
  \E securitySchemes \in CliSchemes, placement \in SecurityPlacements,
     header \in CliHeaders, key \in {<<>>, Credential}, lacks \in Lacks :
    /\ openApiSpec = Lacking(CliDescription(securitySchemes, placement), lacks)
    /\ options = [header |-> header] @@ (IF key = <<>> THEN EmptyMap ELSE [apiKey |-> key])
    /\ mode = "server"
    /\ httpClient = EmptyMap
    /\ tools = EmptyMap
    /\ openApiLookup = EmptyMap
    /\ exited = FALSE
    /\ pc = "idle"
    /\ call = NoCall
    /\ result = NoResult
    /\ failedBefore = FALSE
    /\ converter = [operations |-> <<>>, conversions |-> 0]
    /\ cli = [pc |-> "start"]
    /\ inflight = <<>>
    /\ claudeDesktop = NoConfigFile

\* the description is loaded, or loading fails and the process exits; then
\* the API key is asked for when authentication is required and neither a
\* key nor an authentication header was given
CliLoad ==
  /\ cli.pc = "start"
  /\ \E loaded \in BOOLEAN :
       IF loaded
       THEN /\ cli' = [pc |-> IF checkIfAuthRequired(openApiSpec) /\ ~HasApiKey(options)
                                 /\ ~hasAuthHeader(options.header)
                              THEN "prompting" ELSE "ready",
                       requiresAuth |-> checkIfAuthRequired(openApiSpec),
                       prompted |-> FALSE]
            /\ exited' = exited
       ELSE /\ cli' = [pc |-> "exited"]
            /\ exited' = TRUE
  /\ UNCHANGED <<openApiSpec, options, mode, httpClient, tools, openApiLookup, pc, call, result,
                 failedBefore, converter, inflight, claudeDesktop>>

\* the prompt is answered: options.apiKey is the trimmed answer
CliAnswer ==
  /\ cli.pc = "prompting"
  /\ \E answer \in Answers : options' = [apiKey |-> trim(answer)] @@ options
  /\ cli' = [cli EXCEPT !.pc = "ready", !.prompted = TRUE]
  /\ UNCHANGED <<openApiSpec, mode, httpClient, tools, openApiLookup, exited, pc, call, result,
                 failedBefore, converter, inflight, claudeDesktop>>

\* the API key is added to the headers and the generator is constructed: a
\* description the constructor throws on ends the run with exit code 1, else
\* the server is generated and connected
CliStart ==
  /\ cli.pc = "ready"
  /\ ~MustRegister
  /\ LET header == HeadersWithApiKey(openApiSpec, options)
         given == [headers |-> header]
                    @@ [k \in DOMAIN options \cap {"apiKey", "name", "version", "baseUrl"} |->
                          options[k]]
         error == ConstructionError(openApiSpec, given)
     IN /\ options' = [options EXCEPT !.header = header]
        /\ IF error.thrown
           THEN /\ cli' = [error |-> error.message] @@ [cli EXCEPT !.pc = "exited"]
                /\ exited' = TRUE
                /\ UNCHANGED <<httpClient, converter, tools, openApiLookup>>
           ELSE LET generator == MCPServerGenerator(openApiSpec, given)
                    operations == parseOperations(openApiSpec)
                    converted == convertToMCPTools(operations)
                IN /\ httpClient' = generator.httpClient
                   /\ converter' = [operations |-> operations, conversions |-> 1]
                   /\ tools' = converted.tools
                   /\ openApiLookup' = converted.openApiLookup
                   /\ cli' = [cli EXCEPT !.pc = "running"]
                   /\ exited' = exited
  /\ UNCHANGED <<openApiSpec, mode, pc, call, result, failedBefore, inflight, claudeDesktop>>

\* the start of the command, for every description and option tried
SpecCli == InitCli /\ [][CliLoad \/ CliAnswer \/ CliStart]_vars

\* the security schemes of the descriptions whose server is started and
\* then called
ServeSchemes ==
  {<<>>, <<ApiKeyInQuery>>, <<ApiKeyInHeader>>, <<BearerScheme>>,
   <<BearerScheme, ApiKeyInQuery>>, <<ApiKeyInQuery, BearerScheme>>}

\* the command is started on one of these descriptions
InitServe ==
  \E securitySchemes \in ServeSchemes, placement \in {"none", "root"},
     header \in {h \in CliHeaders : Len(h.keys) = 0 \/ h.keys[1] = K_trace},
     key \in {<<>>, Credential} :
    /\ openApiSpec = CliDescription(securitySchemes, placement)
    /\ options = [header |-> header] @@ (IF key = <<>> THEN EmptyMap ELSE [apiKey |-> key])
    /\ mode = "server"
    /\ httpClient = EmptyMap
    /\ tools = EmptyMap
    /\ openApiLookup = EmptyMap
    /\ exited = FALSE
    /\ pc = "idle"
    /\ call = NoCall
    /\ result = NoResult
    /\ failedBefore = FALSE
    /\ converter = [operations |-> <<>>, conversions |-> 0]
    /\ cli = [pc |-> "start"]
    /\ inflight = <<>>
    /\ claudeDesktop = NoConfigFile

\* the command starts the server, and the tools of the server are invoked
SpecServe == InitServe /\ [][CliLoad \/ CliAnswer \/ CliStart \/ Invoke \/ Respond]_vars

\* the start of the command with --register, for every config file tried
SpecRegister == InitRegister /\ [][CliLoad \/ CliAnswer \/ CliRegister \/ CliStart]_vars

(* ------------------------------ claims -------------------------------- *)

\* the text of the one content item the handler returned
HandlerText == result.handler.content[1].text

\* C1: every invocation of a registered tool handler resolves, whatever the
\* arguments and whatever executeOperation does, with a content list of one
\* item of type "text": when the call succeeded the text is the response
\* body (a string as it is, any other value JSON-serialized with an indent
\* of 2), and when it failed the text starts with "Error: ".
C1_HandlerAlwaysResolves ==
  (mode = "server" /\ result.settled) =>
    /\ result.handler.resolved
    /\ Len(result.handler.content) = 1
    /\ result.handler.content[1].type = "text"
    /\ IF result.requested /\ result.outcome.kind = "response"
          /\ IsSuccessStatus(result.outcome.status)
       THEN HandlerText = IF result.outcome.data.t = "str" THEN result.outcome.data.v
                          ELSE Stringify(result.outcome.data, 2, 0)
       ELSE StartsWith(HandlerText, <<"E", "r", "r", "o", "r", ":", " ">>)

\* a handler call whose request ended in a thrown value that is no Error
\* resolved with the text "Error: oops"
C1_Witness ==
  /\ mode = "server" /\ result.settled /\ result.requested
  /\ result.outcome.kind = "thrown" /\ ~result.outcome.error.isError
  /\ result.handler.resolved
  /\ HandlerText = <<"E", "r", "r", "o", "r", ":", " ", "o", "o", "p", "s">>

\* C2: no step of an invocation, failed or not, changes the tool registry,
\* the name-to-operation lookup or the client's configuration (base URL,
\* default headers, credential and placement) or ends the process; and
\* whenever no request is in flight every registered tool can be invoked.
C2_InvocationsLeaveServerIntact ==
  /\ [][/\ tools' = tools
        /\ openApiLookup' = openApiLookup
        /\ httpClient' = httpClient
        /\ ~exited']_vars
  /\ []((mode = "server" /\ pc = "idle") => \A name \in DOMAIN tools : CanInvoke(name))

\* an invocation succeeded after an earlier invocation had failed
C2_Witness ==
  /\ mode = "server" /\ failedBefore
  /\ result.settled /\ result.promise.ok /\ pc = "idle" /\ ~exited

\* C3: executeOperation settles every outcome of the request in one of four
\* ways: a 2xx response fulfils with the decoded body as it is; a response
\* with any other status rejects with an Error whose message carries the
\* status code and the serialized response body; no response rejects with
\* the network error; anything else rejects with an error that carries the
\* underlying message.
C3_OutcomeClassification ==
  (result.settled /\ result.requested) =>
    LET outcome == result.outcome
        promise == result.promise
    IN CASE outcome.kind = "response" /\ IsSuccessStatus(outcome.status) ->
              promise.ok /\ promise.value = outcome.data
         [] outcome.kind = "response" /\ ~IsSuccessStatus(outcome.status) ->
              /\ ~promise.ok /\ promise.error.isError
              /\ Includes(promise.error.message, Digits(outcome.status))
              /\ Includes(promise.error.message, Stringify(outcome.data, 0, 0))
         [] outcome.kind = "noResponse" ->
              /\ ~promise.ok /\ promise.error.isError
              /\ promise.error.message
                   = <<"A", "P", "I", " ", "r", "e", "q", "u", "e", "s", "t", " ", "f", "a", "i", "l", "e", "d", ":", " ", "N", "o", " ", "r", "e", "s", "p", "o", "n", "s", "e", " ", "r", "e", "c", "e", "i", "v", "e", "d", " ", "f", "r", "o", "m", " ", "s", "e", "r", "v", "e", "r">>
         [] outcome.kind = "setup" ->
              /\ ~promise.ok /\ promise.error.isError
              /\ Includes(promise.error.message, outcome.message)
         [] OTHER ->
              /\ ~promise.ok
              /\ Includes(ErrorText(promise.error), ErrorText(outcome.error))

\* a request answered 404 with {"message":"Not Found"} was rejected with the
\* status and that body in the message
C3_Witness ==
  /\ result.settled /\ result.requested
  /\ result.outcome.kind = "response" /\ result.outcome.status = 404
  /\ ~result.promise.ok
  /\ result.promise.error.message
       = <<"A", "P", "I", " ", "r", "e", "q", "u", "e", "s", "t", " ", "f", "a", "i", "l", "e", "d", " ", "w", "i", "t", "h", " ", "s", "t", "a", "t", "u", "s", " ", "4", "0", "4", ":", " ", "{", "\"", "m", "e", "s", "s", "a", "g", "e", "\"", ":", "\"", "N", "o", "t", " ", "F", "o", "u", "n", "d", "\"", "}">>

(* claims about the marshaled request, under SpecMarshal or SpecArray *)

\* a request was marshaled for the last invocation
Marshaled == call.made /\ ~call.plan.thrown
Request == call.plan.config
CalledOperation == openApiLookup[call.name]

\* the declared security schemes
DeclaredSchemes ==
  IF "components" \in DOMAIN openApiSpec THEN openApiSpec.components.securitySchemes ELSE <<>>

\* C4: when the description declares an apiKey scheme placed in the query
\* under name N and the client was given a credential C, the query map of
\* every marshaled request holds N = C, whatever parameters the operation
\* declares (query parameters, only other parameters, or none at all).
C4_ApiKeyInEveryQuery ==
  \A i \in DOMAIN DeclaredSchemes :
    (/\ Marshaled
     /\ DeclaredSchemes[i].type = "apiKey" /\ DeclaredSchemes[i].in = "query"
     /\ "apiKey" \in DOMAIN httpClient /\ httpClient.apiKey # <<>>)
      => /\ Has(Request.params, DeclaredSchemes[i].name)
         /\ Get(Request.params, DeclaredSchemes[i].name) = Str(httpClient.apiKey)

\* C5: when the credential is placed in the query under name N, N never has
\* another value than the credential in a marshaled query map, also when an
\* argument named N is supplied and N is a declared query parameter.
C5_ApiKeyNotOverridden ==
  (Marshaled /\ PlacesApiKey(httpClient, "query")
     /\ Has(Request.params, httpClient.apiKeyParamName))
    => Get(Request.params, httpClient.apiKeyParamName) = Str(httpClient.apiKey)

\* listPets, which declares api_key as a query parameter, was called with
\* api_key = "evil", and the query map holds the credential
C5_Witness ==
  /\ Marshaled /\ PlacesApiKey(httpClient, "query")
  /\ call.name = <<"l", "i", "s", "t", "P", "e", "t", "s">>
  /\ Has(call.params, K_api_key) /\ Get(call.params, K_api_key) = Str(<<"e", "v", "i", "l">>)
  /\ Get(Request.params, K_api_key) = Str(Credential)

\* what C6 says one token is replaced by: the encoded value of the argument
\* when the name is among the arguments, the empty string when it is not
ClaimedPathValue(params, paramName) ==
  IF Has(params, paramName) THEN encodeURIComponent(StringOf(Get(params, paramName)))
  ELSE [ok |-> TRUE, val |-> <<>>]

RECURSIVE ClaimedPath(_, _)
\* the path C6 says replacePathParams returns
ClaimedPath(path, params) ==
  IF path = <<>> THEN [ok |-> TRUE, val |-> <<>>]
  ELSE LET close == FirstClose(Tail(path))
       IN IF Head(path) = "{" /\ close >= 2
          THEN LET value == ClaimedPathValue(params, SubSeq(path, 2, close))
                   rest == ClaimedPath(SubSeq(path, close + 2, Len(path)), params)
               IN [ok |-> value.ok /\ rest.ok, val |-> value.val \o rest.val]
          ELSE LET rest == ClaimedPath(Tail(path), params)
               IN [ok |-> rest.ok, val |-> <<Head(path)>> \o rest.val]

\* s holds a {name} token
HasToken(s) ==
  \E i \in 1..Len(s), j \in 1..Len(s) :
    /\ s[i] = "{" /\ s[j] = "}" /\ j > i + 1
    /\ \A k \in (i + 1)..(j - 1) : s[k] # "}"

\* C6: replacePathParams never fails, replaces each {name} token whose name
\* is among the arguments by the URL-encoded value of the argument, for
\* every value (0 and false included), replaces every other token by the
\* empty string, and leaves no token in the result.
C6_PathSubstitution ==
  call.made =>
    /\ ~call.plan.thrown
    /\ Request.url = ClaimedPath(CalledOperation.path, call.params).val
    /\ ~HasToken(Request.url)

\* the operation called has an application/json body schema of type object
\* with declared properties
HasObjectBodySchema(operation) ==
  /\ HasJsonSchema(operation.operation)
  /\ SchemaTypeIs(operation.operation.requestBody.content[ApplicationJson].schema, "object")
  /\ "properties" \in DOMAIN operation.operation.requestBody.content[ApplicationJson].schema

DeclaredProperties ==
  CalledOperation.operation.requestBody.content[ApplicationJson].schema.properties

KeySet(x) == {Keys(x)[i] : i \in 1..Len(Keys(x))}

\* the arguments hold a `body` entry that is an object (an array is one)
HasBodyObject(params) == Has(params, BodyKey) /\ Get(params, BodyKey).t \in {"obj", "arr"}

\* the object the body fields are read from
FieldSource(params) == IF HasBodyObject(params) THEN Get(params, BodyKey) ELSE params

\* C7 as stated: the marshaled JSON body of an operation with an object body
\* schema holds exactly the declared properties that are among the
\* arguments, each with the value supplied.
C7_BodyIsDeclaredArguments ==
  (Marshaled /\ HasObjectBodySchema(CalledOperation)) =>
    /\ Request.data.t = "obj"
    /\ KeySet(Request.data) = {k \in KeySet(DeclaredProperties) : Has(call.params, k)}
    /\ \A k \in KeySet(Request.data) : Get(Request.data, k) = Get(call.params, k)

\* C7, amended: the marshaled JSON body of an operation with an object body
\* schema holds exactly the declared properties that are in the field
\* source (the `body` object of the arguments when there is one, else the
\* arguments), each with the value supplied there, except that an
\* array-typed property supplied as a string holds an array; a declared
\* property that is not supplied is absent, an undeclared argument never
\* appears.
C7_BodyIsDeclaredFields ==
  (Marshaled /\ HasObjectBodySchema(CalledOperation)) =>
    LET source == FieldSource(call.params)
    IN /\ Request.data.t = "obj"
       /\ KeySet(Request.data) = {k \in KeySet(DeclaredProperties) : Has(source, k)}
       /\ \A k \in KeySet(Request.data) :
            IF Get(DeclaredProperties, k).type = "array" /\ Get(source, k).t = "str"
            THEN Get(Request.data, k).t = "arr"
            ELSE Get(Request.data, k) = Get(source, k)

\* updatePet was called with {name: "Rex"} and the body is {"name":"Rex"}
C7_Witness ==
  /\ Marshaled /\ call.name = <<"u", "p", "d", "a", "t", "e", "P", "e", "t">>
  /\ call.params = Obj(<<K_name>>, (K_name :> Str(<<"R", "e", "x">>)))
  /\ Request.data = Obj(<<K_name>>, (K_name :> Str(<<"R", "e", "x">>)))

\* C8: for an operation whose application/json body schema has type array,
\* arguments whose `body` is an array A send exactly A as the request data.
C8_ArrayBodySentAsIs ==
  (/\ Marshaled
   /\ HasJsonSchema(CalledOperation.operation)
   /\ SchemaTypeIs(CalledOperation.operation.requestBody.content[ApplicationJson].schema,
                   "array")
   /\ HasBodyArray(call.params))
    => Request.data = Get(call.params, BodyKey)

\* C9: for an operation with an object body schema, when the arguments hold
\* a `body` entry that is an object every field of the request body is a
\* field of that object (none comes from the top-level arguments), when
\* they hold none every field is a top-level argument; the path and the
\* query are filled from the top-level arguments in both cases.
C9_NestedBodyIsFieldSource ==
  (Marshaled /\ HasObjectBodySchema(CalledOperation)) =>
    LET source == IF HasBodyObject(call.params) THEN Get(call.params, BodyKey)
                  ELSE call.params
    IN /\ \A k \in KeySet(Request.data) :
            /\ Has(source, k)
            /\ \/ Get(Request.data, k) = Get(source, k)
               \/ Get(source, k).t = "str" /\ Get(Request.data, k).t = "arr"
       /\ \A k \in KeySet(DeclaredProperties) : Has(source, k) => Has(Request.data, k)
       /\ Request.url = <<"/", "p", "e", "t", "s", "/">> \o (IF Has(call.params, K_petId)
                                     THEN Get(call.params, K_petId).v ELSE <<>>)
       /\ Has(Request.params, K_limit) <=> Has(call.params, K_limit)
       /\ Has(Request.params, K_limit) =>
            Get(Request.params, K_limit) = Get(call.params, K_limit)

\* updatePet was called with name "Rex", petId "42" and limit 10 at the top
\* level and with body {tags: "a, b", color, limit: 5, petId: "9"}: the
\* body has the nested tags and no name, the url and the query have the
\* top-level petId and limit
C9_Witness ==
  /\ Marshaled /\ call.name = <<"u", "p", "d", "a", "t", "e", "P", "e", "t">>
  /\ Has(call.params, K_name) /\ Has(call.params, K_petId) /\ Has(call.params, K_limit)
  /\ Has(call.params, BodyKey) /\ Get(call.params, BodyKey) = NestedTags
  /\ Request.data = Obj(<<K_tags>>, (K_tags :> Arr(<<Str(<<"a">>), Str(<<"b">>)>>)))
  /\ Request.url = <<"/", "p", "e", "t", "s", "/", "4", "2">>
  /\ Get(Request.params, K_limit) = Num(10)

\* the string supplied for `tags`, and the value marshaled for it
TagsString == Get(call.params, K_tags).v
TagsValue == Get(Request.data, K_tags)
SplitAndTrimmed(s) == Arr([i \in 1..Len(split(s, ",")) |-> Str(trim(split(s, ",")[i]))])

\* C10 as stated: an array-typed property supplied as a string s is
\* marshaled as the parsed array when s looks like a JSON array literal and
\* parses, and otherwise as s split on commas with each piece trimmed.
C10_ParseElseSplit ==
  Marshaled =>
    /\ TagsValue.t = "arr"
    /\ IF LooksLikeJsonArray(TagsString) /\ JSONparse(TagsString).ok
       THEN TagsValue = JSONparse(TagsString).val
       ELSE TagsValue = SplitAndTrimmed(TagsString)

\* C10, amended: an array-typed property supplied as a string s is always
\* marshaled as an array: when s starts with [ and ends with ], the parsed
\* array if s parses and the single-element array [s] if it does not (no
\* comma split is tried); in every other case s split on commas with each
\* piece trimmed.
C10_ParseOrWrapElseSplit ==
  Marshaled =>
    /\ TagsValue.t = "arr"
    /\ IF LooksLikeJsonArray(TagsString)
       THEN IF JSONparse(TagsString).ok
            THEN TagsValue = JSONparse(TagsString).val
            ELSE TagsValue = Arr(<<Str(TagsString)>>)
       ELSE TagsValue = SplitAndTrimmed(TagsString)

\* tags was supplied as "[,]", which looks like an array and does not
\* parse, and was marshaled as ["[,]"]
C10_Witness ==
  /\ Marshaled
  /\ TagsString = <<"[", ",", "]">>
  /\ TagsValue = Arr(<<Str(<<"[", ",", "]">>)>>)

(* claims about the conversion, under SpecSynth or SpecConvert *)

\* s with every character that is no letter, digit or underscore replaced
NonWordReplaced(s) == [i \in 1..Len(s) |-> IF s[i] \in WordChars THEN s[i] ELSE "_"]

\* C11: the id of every operation without operationId is the upper-cased
\* method, `_`, and the path with every non-word character (whitespace
\* included) replaced by `_`; operations of the same method and path have
\* the same id; the replacement leaves a synthesized id as it is.
C11_SynthesizedId ==
  \A i \in DOMAIN converter.operations :
    LET o == converter.operations[i]
    IN ~Given(o.operation, "operationId") =>
         /\ o.operationId = toUpperCase(o.method) \o <<"_">> \o NonWordReplaced(o.path)
         /\ NonWordReplaced(o.operationId) = o.operationId
         /\ \A j \in DOMAIN converter.operations :
              (/\ converter.operations[j].method = o.method
               /\ converter.operations[j].path = o.path
               /\ ~Given(converter.operations[j].operation, "operationId"))
                => converter.operations[j].operationId = o.operationId

\* the seven recognized verbs
SevenVerbs == {<<"g", "e", "t">>, <<"p", "o", "s", "t">>, <<"p", "u", "t">>, <<"d", "e", "l", "e", "t", "e">>, <<"p", "a", "t", "c", "h">>, <<"o", "p", "t", "i", "o", "n", "s">>, <<"h", "e", "a", "d">>}

\* the (path, key) positions of the path table whose key is a verb
VerbEntries ==
  IF "paths" \notin DOMAIN openApiSpec THEN {}
  ELSE UNION {{<<p, k>> : k \in {k \in DOMAIN openApiSpec.paths[p].item :
                                  openApiSpec.paths[p].item[k].key \in SevenVerbs}} :
              p \in DOMAIN openApiSpec.paths}

\* position a comes before position b in the path table
Earlier(a, b) == a[1] < b[1] \/ (a[1] = b[1] /\ a[2] < b[2])

\* C12: parseOperations produced exactly one record for each (path, key) of
\* the path table whose key is one of the seven verbs, in path-table order
\* and then key order, each with the path, the key and the operation of the
\* entry, and no record for any other key; no step modifies the description.
C12_OneRecordPerVerbEntry ==
  /\ [](/\ Len(converter.operations) = Cardinality(VerbEntries)
        /\ \A e \in VerbEntries :
             LET o == converter.operations[Cardinality({f \in VerbEntries : Earlier(f, e)}) + 1]
                 entry == openApiSpec.paths[e[1]].item[e[2]]
             IN /\ o.path = openApiSpec.paths[e[1]].path
                /\ o.method = entry.key
                /\ o.operation = entry.value)
  /\ [][openApiSpec' = openApiSpec]_vars

\* a path item with a `parameters` block, a get and a head, followed by a
\* path item with summary, post, options and trace: four records
C12_Witness ==
  /\ Len(openApiSpec.paths) = 2
  /\ Len(openApiSpec.paths[1].item) = 3 /\ Len(openApiSpec.paths[2].item) = 4
  /\ openApiSpec.paths[1].item[1].key = <<"p", "a", "r", "a", "m", "e", "t", "e", "r", "s">>
  /\ openApiSpec.paths[2].item[4].key = <<"t", "r", "a", "c", "e">>
  /\ Len(converter.operations) = 4
  /\ converter.operations[2].method = <<"h", "e", "a", "d">>
  /\ converter.operations[4].method = <<"o", "p", "t", "i", "o", "n", "s">>
  /\ converter.conversions > 0

\* the operations that have the name
OperationsNamed(name) ==
  {i \in DOMAIN converter.operations : converter.operations[i].operationId = name}
\* the last of them in extraction order
LastNamed(name) ==
  converter.operations[CHOOSE i \in OperationsNamed(name) : \A j \in OperationsNamed(name) : j <= i]

\* C13: after convertToMCPTools the tool map and the lookup have the same
\* keys, the names of the operations; for each name both hold the last
\* operation of that name in extraction order (same path and method), also
\* when several operations have the name.
C13_RegistryLastWriteWins ==
  converter.conversions > 0 =>
    /\ DOMAIN tools = DOMAIN openApiLookup
    /\ DOMAIN tools = {converter.operations[i].operationId : i \in DOMAIN converter.operations}
    /\ \A name \in DOMAIN tools :
         /\ openApiLookup[name] = LastNamed(name)
         /\ tools[name].path = LastNamed(name).path
         /\ tools[name].method = LastNamed(name).method

\* two operations of different paths have the same name, one explicit and
\* one synthesized, and the registry holds one entry for it
C13_Witness ==
  /\ converter.conversions > 0
  /\ \E i \in DOMAIN converter.operations, j \in DOMAIN converter.operations :
       /\ i < j
       /\ converter.operations[i].operationId = converter.operations[j].operationId
       /\ converter.operations[i].path # converter.operations[j].path
       /\ Given(converter.operations[i].operation, "operationId")
       /\ ~Given(converter.operations[j].operation, "operationId")
       /\ tools[converter.operations[i].operationId].path = converter.operations[j].path
  /\ Cardinality(DOMAIN tools) < Len(converter.operations)

C15_EnumAcceptsListedValues ==
  (call.made /\ "param" \in DOMAIN call /\ call.value.t = "str") =>
    LET op == openApiLookup[call.name].operation
    IN "parameters" \in DOMAIN op =>
         \A i \in DOMAIN op.parameters :
           (/\ op.parameters[i].name = call.param
            /\ TypeOf(op.parameters[i].schema) = "string"
            /\ "enum" \in DOMAIN op.parameters[i].schema)
             => (result.accepted <=>
                   \E j \in DOMAIN op.parameters[i].schema.enum :
                     op.parameters[i].schema.enum[j] = call.value.v)

\* C16: the parameters of every tool whose operation has an application/json
\* body hold one entry per property for an object body with properties, a
\* permissive `body` entry for a referenced body and for an object body
\* without properties, and an array-typed `body` entry for an array body.
C16_BodyHasAnEntry ==
  converter.conversions > 0 =>
    \A name \in DOMAIN tools :
      LET op == openApiLookup[name].operation
          parameters == tools[name].parameters
      IN HasJsonSchema(op) =>
           LET schema == op.requestBody.content[ApplicationJson].schema
           IN /\ (TypeOf(schema) = "object" /\ "properties" \in DOMAIN schema) =>
                   \A k \in KeySet(schema.properties) : Has(parameters, k)
              /\ (HasRef(schema) \/ (TypeOf(schema) = "object" /\ "properties" \notin DOMAIN schema))
                   => /\ Has(parameters, BodyKey)
                      /\ Get(parameters, BodyKey).kind \in {"passthrough", "any"}
              /\ TypeOf(schema) = "array" =>
                   /\ Has(parameters, BodyKey)
                   /\ Get(parameters, BodyKey).kind = "array"

(* claims about credentials and the start of the command *)

\* the placement the command line resolves, and the one the client resolves
NoPlacement == [in |-> "none"]
CliPlacement ==
  CASE getAuthType(openApiSpec) = "bearer" -> [name |-> Authorization, in |-> "header"]
    [] getAuthType(openApiSpec) = "apiKey" -> getApiKeyDetails(openApiSpec)
    [] OTHER -> NoPlacement
ClientPlacement ==
  IF "apiKeyParamName" \in DOMAIN httpClient
  THEN [name |-> httpClient.apiKeyParamName, in |-> httpClient.apiKeyLocation]
  ELSE NoPlacement

\* the declared apiKey schemes, by position
ApiKeySchemes == {i \in DOMAIN DeclaredSchemes : DeclaredSchemes[i].type = "apiKey"}
BearerSchemes ==
  {i \in DOMAIN DeclaredSchemes :
     DeclaredSchemes[i].type = "http" /\ DeclaredSchemes[i].scheme = "bearer"}

\* C17: once the server is started, when an apiKey scheme is declared both
\* the command line and the client resolve the first apiKey scheme, before
\* or after a bearer scheme; and for every description the command line and
\* the client resolve the same placement.
C17_SamePlacementResolved ==
  cli.pc = "running" =>
    /\ ApiKeySchemes # {} =>
         LET first == DeclaredSchemes[CHOOSE i \in ApiKeySchemes : \A j \in ApiKeySchemes : i <= j]
         IN /\ getAuthType(openApiSpec) = "apiKey"
            /\ CliPlacement = [name |-> first.name, in |-> first.in]
            /\ ClientPlacement = [name |-> first.name, in |-> first.in]
    /\ CliPlacement = ClientPlacement

\* C18: a client that holds a credential C for a description whose resolved
\* scheme is bearer (a bearer scheme and no apiKey scheme) sends the default
\* header `Authorization: Bearer C`, never the bare credential.
C18_BearerHeader ==
  (/\ "apiKey" \in DOMAIN httpClient /\ httpClient.apiKey # <<>>
   /\ BearerSchemes # {} /\ ApiKeySchemes = {})
    => /\ Has(httpClient.headers, Authorization)
       /\ Get(httpClient.headers, Authorization) = Str(<<"B", "e", "a", "r", "e", "r", " ">> \o httpClient.apiKey)

\* a non-empty security requirement at the root or on an operation of one of
\* the seven verbs of any path
RequiresAuthentication ==
  \/ HasSecurity(openApiSpec)
  \/ \E e \in VerbEntries : HasSecurity(openApiSpec.paths[e[1]].item[e[2]].value)

\* C19: what checkIfAuthRequired returned for the loaded description is true
\* exactly when the description has a non-empty security requirement at the
\* root or on an operation of any path, for each of the seven verbs.
C19_AuthRequiredDetected ==
  cli.pc \in {"prompting", "ready", "running"} => (cli.requiresAuth <=> RequiresAuthentication)

\* the names of the headers the declared schemes place a credential in
SchemeHeaders ==
  {toLowerCase(Authorization) : i \in BearerSchemes}
    \cup {toLowerCase(DeclaredSchemes[i].name) :
            i \in {j \in ApiKeySchemes : DeclaredSchemes[j].in = "header"}}

\* a header is given that the declared schemes name (any of the usual
\* authentication headers when the schemes name none)
HasMatchingHeader ==
  \E i \in DOMAIN options.header.keys :
    IF SchemeHeaders = {} THEN toLowerCase(options.header.keys[i]) \in AuthHeaders
    ELSE toLowerCase(options.header.keys[i]) \in SchemeHeaders

\* C20: the command never has the server of a description that requires
\* authentication generated and connected while the credential is empty and
\* no matching authentication header is given: the credential is requested
\* before the server is started.
C20_NoStartWithoutCredential ==
  (cli.pc = "running" /\ RequiresAuthentication) => (HasApiKey(options) \/ HasMatchingHeader)

\* the description lacks the format identifier, the info block or the path
\* table
LacksRequired ==
  \/ "openapi" \notin DOMAIN openApiSpec
  \/ "info" \notin DOMAIN openApiSpec
  \/ "paths" \notin DOMAIN openApiSpec

\* C21: a description that lacks openapi, info or paths is rejected with an
\* error at the start: no operation is extracted, no tool is registered, no
\* server is connected, and the run ends with the process exited.
C21_RejectedBeforeConversion ==
  /\ [](LacksRequired => /\ cli.pc # "running"
                         /\ converter.operations = <<>>
                         /\ tools = EmptyMap
                         /\ openApiLookup = EmptyMap)
  /\ [][(LacksRequired /\ cli.pc = "ready")
          => (cli'.pc = "exited" /\ "error" \in DOMAIN cli' /\ exited')]_vars

C21_Witness ==
  /\ "paths" \notin DOMAIN openApiSpec
  /\ cli.pc = "exited" /\ exited
  /\ "error" \in DOMAIN cli /\ cli.error = "Missing \"paths\" field in spec"
  /\ tools = EmptyMap /\ converter.operations = <<>>

\* the invocation ran alone: what it would have marshaled and settled to
RanAlone(invocation) ==
  LET plan == RequestConfig(httpClient, openApiLookup[invocation.name], invocation.params)
  IN /\ invocation.plan = plan
     /\ plan.thrown => invocation.settled /\ invocation.promise = RejectedEarly(plan)
     /\ (invocation.settled /\ ~plan.thrown)
          => invocation.promise = executeOperation(invocation.outcome)
     /\ (invocation.settled /\ mode = "server")
          => invocation.handler = toolHandler(invocation.promise)

\* C22: under every interleaving of dispatches and responses, the request
\* plan and the result of each invocation are those of the invocation run
\* alone, and no step of one invocation changes the client, the registry or
\* another invocation.
C22_InvocationsIndependent ==
  /\ [](\A i \in DOMAIN inflight : RanAlone(inflight[i]))
  /\ [][/\ httpClient' = httpClient /\ tools' = tools /\ openApiLookup' = openApiLookup
        /\ \A i \in DOMAIN inflight :
             /\ inflight'[i].plan = inflight[i].plan
             /\ inflight[i].settled => inflight'[i] = inflight[i]
        /\ Cardinality({i \in DOMAIN inflight : inflight'[i] # inflight[i]}) <= 1]_vars

C22_Witness ==
  /\ Len(inflight) = 2
  /\ inflight[1].name = inflight[2].name /\ inflight[1].params # inflight[2].params
  /\ ~inflight[1].plan.thrown /\ ~inflight[2].plan.thrown
  /\ ~inflight[1].settled /\ inflight[2].settled
  /\ inflight[1].plan.config.params # inflight[2].plan.config.params

\* the config file was written by the registration
Registered == "written" \in DOMAIN claudeDesktop

\* what the text of a file holds: the JSON value of the text, after the
\* byte order mark if the text starts with one
Held(text) ==
  JSONparse(IF text # <<>> /\ text[1] = ByteOrderMark THEN Tail(text) ELSE text)

\* what the config file held before the registration, and what it holds now
HeldBefore ==
  IF claudeDesktop.prior.found /\ claudeDesktop.prior.exists
  THEN Held(claudeDesktop.prior.text)
  ELSE [ok |-> FALSE, val |-> Null]
HeldNow == JSONparse(claudeDesktop.text)

\* every key of the object `before` but `except` has its value in `after`
Kept(before, after, except) ==
  before.t = "obj"
    => \A i \in DOMAIN before.keys :
         before.keys[i] # except
           => /\ Has(after, before.keys[i])
              /\ Get(after, before.keys[i]) = Get(before, before.keys[i])

\* every key of the object `after` but `except` was a key of `before`
NothingElseAdded(before, after, except) ==
  \A i \in DOMAIN after.keys :
    after.keys[i] # except => before.t = "obj" /\ Has(before, after.keys[i])

\* C23: once registerWithClaudeDesktop has written the config file, every
\* entry of mcpServers other than the one of the server name and every other
\* top-level key the file held before has its previous value, whatever the
\* file held, and nothing but the entry of the server name is added.
C23_RegistrationPreservesConfig ==
  Registered
    => /\ HeldNow.ok /\ HeldNow.val.t = "obj"
       /\ Has(ServersOf(HeldNow.val), cli.registered)
       /\ HeldBefore.ok
            => /\ Kept(HeldBefore.val, HeldNow.val, K_mcpServers)
               /\ Kept(ServersOf(HeldBefore.val), ServersOf(HeldNow.val), cli.registered)
               /\ NothingElseAdded(HeldBefore.val, HeldNow.val, K_mcpServers)
               /\ NothingElseAdded(ServersOf(HeldBefore.val), ServersOf(HeldNow.val),
                                   cli.registered)

\* the arguments of the entry registered
WrittenArgs == Get(Get(ServersOf(HeldNow.val), cli.registered), K_args).v

\* C24: every server entry that registerWithClaudeDesktop writes into the
\* config file has the --no-ui flag among its arguments, whatever options
\* were given.
C24_NoUiAmongArguments ==
  Registered => \E i \in DOMAIN WrittenArgs : WrittenArgs[i] = Str(<<"-", "-", "n", "o", "-", "u", "i">>)

\* the rule convertParameterToZodSchema gives a parameter with this schema
RuleAsParameter(name, schema, isRequired) ==
  convertParameterToZodSchema([name |-> name, schema |-> schema, required |-> isRequired]).schema

\* the rule without its optional mark
Unmarked(rule) == [k \in DOMAIN rule \ {"optional"} |-> rule[k]]

\* C25: every property of an object request body is translated as a
\* parameter with the same schema is: a string with an enum list to the
\* closed enum over the listed values, a string with format date-time to the
\* datetime string, and every fragment to the rule of the same fragment as a
\* parameter.
C25_BodyPropertiesMappedAsParameters ==
  converter.conversions > 0 =>
    \A name \in DOMAIN tools :
      LET op == openApiLookup[name].operation
      IN (HasJsonSchema(op)
          /\ TypeOf(op.requestBody.content[ApplicationJson].schema) = "object"
          /\ "properties" \in DOMAIN op.requestBody.content[ApplicationJson].schema) =>
           LET schema == op.requestBody.content[ApplicationJson].schema
           IN \A k \in KeySet(schema.properties) :
                LET fragment == Get(schema.properties, k)
                    isRequired == "required" \in DOMAIN schema
                                    /\ \E i \in DOMAIN schema.required : schema.required[i] = k
                    rule == Get(tools[name].parameters, k)
                IN /\ Has(tools[name].parameters, k)
                   /\ (TypeOf(fragment) = "string" /\ "format" \in DOMAIN fragment
                       /\ fragment.format = "date-time") => Unmarked(rule) = ZDateTime
                   /\ (TypeOf(fragment) = "string" /\ "enum" \in DOMAIN fragment
                       /\ "format" \notin DOMAIN fragment) => Unmarked(rule) = ZEnum(fragment.enum)
                   /\ rule = RuleAsParameter(k, fragment, isRequired)

\* the properties a request body declares, under whichever content type
BodyFields(operation) ==
  UNION {IF "schema" \in DOMAIN operation.requestBody.content[c]
            /\ "properties" \in DOMAIN operation.requestBody.content[c].schema
         THEN KeySet(operation.requestBody.content[c].schema.properties)
         ELSE {} : c \in DOMAIN operation.requestBody.content}

\* the Content-Type header of the request
RequestContentType == Get(Request.headers, ContentType).v

\* C26: the content type of a request is multipart/form-data exactly when
\* the request body of the operation declares that content type, and
\* application/json otherwise; a multipart body has one part for each body
\* field supplied, also when multipart/form-data is the only content type
\* declared.
C26_MultipartWhenDeclared ==
  Marshaled =>
    LET op == CalledOperation.operation
    IN /\ DeclaresMultipart(op) => RequestContentType = MultipartFormData
       /\ ~DeclaresMultipart(op) => RequestContentType = ApplicationJson
       /\ DeclaresMultipart(op) =>
            /\ Request.data.t = "form"
            /\ {Request.data.parts[i].key : i \in DOMAIN Request.data.parts}
                 = {k \in BodyFields(op) : Has(FieldSource(call.params), k)}
            /\ \A i \in DOMAIN Request.data.parts :
                 Request.data.parts[i].value
                   = Get(FieldSource(call.params), Request.data.parts[i].key)

\* the names the request body holds: the keys of an object, the keys of the
\* parts of a multipart body
BodyNames ==
  IF Request.data.t = "obj" THEN KeySet(Request.data)
  ELSE IF Request.data.t = "form"
  THEN {Request.data.parts[i].key : i \in DOMAIN Request.data.parts}
  ELSE {}

\* the body fields grouped under `body`, if they are
GroupedFields ==
  IF HasBodyObject(call.params) /\ Get(call.params, BodyKey).t = "obj"
  THEN KeySet(Get(call.params, BodyKey))
  ELSE {}

\* C28: the value supplied for a parameter declared in the path, in the
\* query or in a header is not in the marshaled request body, whatever the
\* shape of the body schema, for flat and for grouped arguments.
C28_ParametersNotInBody ==
  (Marshaled /\ "parameters" \in DOMAIN CalledOperation.operation) =>
    \A i \in DOMAIN CalledOperation.operation.parameters :
      LET param == CalledOperation.operation.parameters[i]
      IN (param.in \in {"path", "query", "header"} /\ Has(call.params, param.name)
          /\ param.name \notin GroupedFields)
           => param.name \notin BodyNames

\* the credential the run was given, with --api-key or at the prompt
SuppliedCredential == IF HasApiKey(options) THEN options.apiKey ELSE <<>>

\* the headers the request goes out with: the default headers of the client
\* with the headers of the request over them
SentHeaders == Spread(httpClient.headers, Request.headers, Keys(Request.headers))

CredentialInHeader ==
  \E k \in KeySet(SentHeaders) :
    Get(SentHeaders, k).t = "str" /\ Includes(Get(SentHeaders, k).v, SuppliedCredential)
CredentialInQuery ==
  \E k \in KeySet(Request.params) : Get(Request.params, k) = Str(SuppliedCredential)

C29_GeneratorPassesCredential ==
  (cli.pc = "running" /\ SuppliedCredential # <<>>) =>
    /\ "apiKey" \in DOMAIN httpClient /\ httpClient.apiKey = SuppliedCredential
    /\ (Marshaled /\ getAuthType(openApiSpec) = "apiKey"
        /\ getApiKeyDetails(openApiSpec).in = "query")
         => /\ Has(Request.params, getApiKeyDetails(openApiSpec).name)
            /\ Get(Request.params, getApiKeyDetails(openApiSpec).name) = Str(SuppliedCredential)

\* the rule is the unconstrained one, optional or not
Unconstrained(rule) == rule.kind = "any"

\* every named parameter and every body property of the operation has a
\* rule among the parameters of its tool
EveryRuleReturned(operation) ==
  LET op == operation.operation
      parameters == IF "parameters" \in DOMAIN op THEN op.parameters ELSE <<>>
  IN /\ operation.operationId \in DOMAIN tools
     /\ \A i \in DOMAIN parameters :
          "name" \in DOMAIN parameters[i] =>
            /\ Has(tools[operation.operationId].parameters, parameters[i].name)
            /\ "schema" \notin DOMAIN parameters[i] =>
                 Unconstrained(Get(tools[operation.operationId].parameters, parameters[i].name))
     /\ (HasJsonSchema(op)
         /\ "properties" \in DOMAIN op.requestBody.content[ApplicationJson].schema) =>
          \A k \in KeySet(op.requestBody.content[ApplicationJson].schema.properties) :
            Has(tools[operation.operationId].parameters, k)

\* C30: schema translation is total: for a description that passes
\* validation, convertToMCPTools raises nothing and returns a rule for every
\* parameter and every body property of every operation, the unconstrained
\* rule for what it does not recognize.
C30_TranslationTotal ==
  (~validateOpenAPISpec(openApiSpec).thrown /\ converter.conversions > 0) =>
    /\ "raised" \notin DOMAIN converter
    /\ \A i \in DOMAIN converter.operations : EveryRuleReturned(converter.operations[i])

====
